---- MODULE Spec2Model ----
(***************************************************************************)
(* Model of OpenAIResponsesClient (react-smart-diagrams): the chat() tool  *)
(* loop, its transport, the tool-call detector and the response parser.    *)
(*                                                                         *)
(* JavaScript values are tagged records: [t |-> "undefined"], [t |->       *)
(* "null"], [t |-> "bool", b |-> ...], [t |-> "num", n |-> ...], [t |->    *)
(* "str", s |-> <<...>>], [t |-> "arr", a |-> <<...>>] and [t |-> "obj",   *)
(* o |-> f] with f a function from property names to values.  A string is  *)
(* a sequence of atoms; an atom is one character or one word that no       *)
(* operation of the program ever splits.  A property name is a string too, *)
(* so the domain of f is a set of atom sequences; Get and Field take the   *)
(* one-atom names the program writes as literals.                          *)
(***************************************************************************)
EXTENDS Integers, Sequences, FiniteSets, TLC

(***************************************************************************)
(* JavaScript values                                                       *)
(***************************************************************************)
Undefined == [t |-> "undefined"]

Null == [t |-> "null"]

Str(s) == [t |-> "str", s |-> s]

\* a number, kept as the atom that spells it
Num(n) == [t |-> "num", n |-> n]

Arr(a) == [t |-> "arr", a |-> a]

Obj(f) == [t |-> "obj", o |-> f]

EmptyObj == Obj(<<>>)

\* typeof v === 'string'
IsString(v) == v.t = "str"

\* Array.isArray(v)
IsArray(v) == v.t = "arr"

\* v == null (null or undefined): reading a property of such a value throws
IsNullish(v) == v.t \in {"undefined", "null"}

\* truthiness of the values the program tests with && / || / if
Truthy(v) ==
    CASE v.t = "undefined" -> FALSE
      [] v.t = "null" -> FALSE
      [] v.t = "bool" -> v.b
      [] v.t = "num" -> v.n # "0"
      [] v.t = "str" -> v.s # <<>>
      [] OTHER -> TRUE

\* v[k] for a value that is not nullish: a missing property, and any
\* property of a primitive or an array that the program asks for, is undefined
Get(v, k) ==
    IF v.t = "obj" /\ <<k>> \in DOMAIN v.o THEN v.o[<<k>>] ELSE Undefined

\* one property k: v of an object literal; f @@ g joins properties
Field(k, v) == <<k>> :> v

(***************************************************************************)
(* Strings as atom sequences                                               *)
(***************************************************************************)
Quote == "\""

Backslash == "\\"

Newline == "\n"

Space == " "

IsWhitespace(c) == c \in {Space, Newline, "\t"}

Digits == {"0", "5", "42"}

(***************************************************************************)
(* JSON.parse: a recursive-descent parser over atoms.  A parse step        *)
(* returns [ok, v, p]: success, the value and the position after it.       *)
(***************************************************************************)
ParseFail == [ok |-> FALSE, v |-> Undefined, p |-> 0]

ParseOk(v, p) == [ok |-> TRUE, v |-> v, p |-> p]

RECURSIVE SkipWs(_, _)
SkipWs(s, p) ==
    IF p <= Len(s) /\ IsWhitespace(s[p]) THEN SkipWs(s, p + 1) ELSE p

\* the characters of a string literal whose opening quote is before p
RECURSIVE ParseChars(_, _, _)
ParseChars(s, p, acc) ==
    IF p > Len(s) THEN ParseFail
    ELSE IF s[p] = Quote THEN ParseOk(Str(acc), p + 1)
    ELSE IF s[p] = Newline \/ s[p] = "\t" THEN ParseFail
    ELSE IF s[p] = Backslash THEN
        IF p + 1 > Len(s) THEN ParseFail
        ELSE IF s[p + 1] \in {Quote, Backslash}
            THEN ParseChars(s, p + 2, Append(acc, s[p + 1]))
        ELSE IF s[p + 1] = "n" THEN ParseChars(s, p + 2, Append(acc, Newline))
        ELSE ParseFail
    ELSE ParseChars(s, p + 1, Append(acc, s[p]))

RECURSIVE ParseValue(_, _)
RECURSIVE ParseMembers(_, _, _)
RECURSIVE ParseElements(_, _, _)
ParseValue(s, p0) ==
    LET p == SkipWs(s, p0) IN
    IF p > Len(s) THEN ParseFail
    ELSE IF s[p] = "null" THEN ParseOk(Null, p + 1)
    ELSE IF s[p] = "true" THEN ParseOk([t |-> "bool", b |-> TRUE], p + 1)
    ELSE IF s[p] = "false" THEN ParseOk([t |-> "bool", b |-> FALSE], p + 1)
    ELSE IF s[p] \in Digits THEN ParseOk(Num(s[p]), p + 1)
    ELSE IF s[p] = Quote THEN ParseChars(s, p + 1, <<>>)
    ELSE IF s[p] = "{" THEN
        LET q == SkipWs(s, p + 1) IN
        IF q <= Len(s) /\ s[q] = "}" THEN ParseOk(EmptyObj, q + 1)
        ELSE ParseMembers(s, q, <<>>)
    ELSE IF s[p] = "[" THEN
        LET q == SkipWs(s, p + 1) IN
        IF q <= Len(s) /\ s[q] = "]" THEN ParseOk(Arr(<<>>), q + 1)
        ELSE ParseElements(s, q, <<>>)
    ELSE ParseFail

\* members of an object after "{" or ",": a later duplicate key wins
ParseMembers(s, p0, acc) ==
    LET p == SkipWs(s, p0) IN
    IF p > Len(s) \/ s[p] # Quote THEN ParseFail
    ELSE
        LET key == ParseChars(s, p + 1, <<>>) IN
        IF ~key.ok THEN ParseFail
        ELSE
            LET c == SkipWs(s, key.p) IN
            IF c > Len(s) \/ s[c] # ":" THEN ParseFail
            ELSE
                LET val == ParseValue(s, c + 1) IN
                IF ~val.ok THEN ParseFail
                ELSE
                    LET e == SkipWs(s, val.p)
                        name == key.v.s
                        acc2 == [k \in (DOMAIN acc) \cup {name} |->
                                    IF k = name THEN val.v ELSE acc[k]]
                    IN
                    IF e > Len(s) THEN ParseFail
                    ELSE IF s[e] = "}" THEN ParseOk(Obj(acc2), e + 1)
                    ELSE IF s[e] = "," THEN ParseMembers(s, e + 1, acc2)
                    ELSE ParseFail

ParseElements(s, p0, acc) ==
    LET val == ParseValue(s, p0) IN
    IF ~val.ok THEN ParseFail
    ELSE
        LET e == SkipWs(s, val.p) IN
        IF e > Len(s) THEN ParseFail
        ELSE IF s[e] = "]" THEN ParseOk(Arr(Append(acc, val.v)), e + 1)
        ELSE IF s[e] = "," THEN ParseElements(s, e + 1, Append(acc, val.v))
        ELSE ParseFail

\* JSON.parse(s): [ok |-> FALSE] stands for the SyntaxError it throws
JSONParse(s) ==
    LET r == ParseValue(s, 1) IN
    IF r.ok /\ SkipWs(s, r.p) > Len(s) THEN r ELSE ParseFail

(***************************************************************************)
(* JSON.stringify of a string, and of the object { syntaxDoc, sourceUrl }  *)
(***************************************************************************)
RECURSIVE EscapeChars(_)
EscapeChars(s) ==
    IF s = <<>> THEN <<>>
    ELSE (IF Head(s) \in {Quote, Backslash} THEN <<Backslash, Head(s)>>
          ELSE IF Head(s) = Newline THEN <<Backslash, "n">>
          ELSE <<Head(s)>>) \o EscapeChars(Tail(s))

StringifyString(s) == <<Quote>> \o EscapeChars(s) \o <<Quote>>

\* JSON.stringify({ syntaxDoc, sourceUrl }) for two strings
StringifyDocs(syntaxDoc, sourceUrl) ==
    <<"{">> \o StringifyString(<<"syntaxDoc">>) \o <<":">>
            \o StringifyString(syntaxDoc) \o <<",">>
            \o StringifyString(<<"sourceUrl">>) \o <<":">>
            \o StringifyString(sourceUrl) \o <<"}">>

(***************************************************************************)
(* String(v)                                                               *)
(***************************************************************************)
RECURSIVE JsString(_)
RECURSIVE JoinElements(_)
JsString(v) ==
    CASE v.t = "str" -> v.s
      [] v.t = "undefined" -> <<"undefined">>
      [] v.t = "null" -> <<"null">>
      [] v.t = "bool" -> IF v.b THEN <<"true">> ELSE <<"false">>
      [] v.t = "num" -> <<v.n>>
      [] v.t = "arr" -> JoinElements(v.a)
      [] OTHER -> <<"[object Object]">>

\* Array.prototype.join(","): null and undefined elements print as ""
JoinElements(a) ==
    IF a = <<>> THEN <<>>
    ELSE (IF IsNullish(Head(a)) THEN <<>> ELSE JsString(Head(a)))
         \o (IF Len(a) > 1 THEN <<",">> \o JoinElements(Tail(a)) ELSE <<>>)

(***************************************************************************)
(* Internals of OpenAIResponsesClient.ts                                   *)
(***************************************************************************)
\* the value of a property when it is a string, else ''
StringOr(v, k) == IF IsString(Get(v, k)) THEN Get(v, k).s ELSE <<>>

getOutputArray(o) == IF IsArray(Get(o, "output")) THEN Get(o, "output").a ELSE <<>>

\* an anchor lookup that tries the nested response.id first
getResponseId_nestedFirst(json) ==
    LET resp == Get(json, "response") IN
    IF Truthy(resp) /\ IsString(Get(resp, "id")) /\ Get(resp, "id").s # <<>>
        THEN [ok |-> TRUE, id |-> Get(resp, "id").s]
    ELSE IF IsString(Get(json, "id")) /\ Get(json, "id").s # <<>>
        THEN [ok |-> TRUE, id |-> Get(json, "id").s]
    ELSE [ok |-> FALSE, id |-> <<>>]

\* an anchor lookup that returns '' in place of throwing
getResponseId_noThrow(json) ==
    LET resp == Get(json, "response") IN
    IF IsString(Get(json, "id")) /\ Get(json, "id").s # <<>>
        THEN [ok |-> TRUE, id |-> Get(json, "id").s]
    ELSE IF Truthy(resp) /\ IsString(Get(resp, "id"))
        THEN [ok |-> TRUE, id |-> Get(resp, "id").s]
    ELSE [ok |-> TRUE, id |-> <<>>]

\* getResponseId(json): [ok |-> FALSE] stands for the Error
\* 'Missing response.id when continuing tool calls'
getResponseId(json) ==
    LET resp == Get(json, "response") IN
    IF IsString(Get(json, "id")) /\ Get(json, "id").s # <<>>
        THEN [ok |-> TRUE, id |-> Get(json, "id").s]
    ELSE IF Truthy(resp) /\ IsString(Get(resp, "id")) /\ Get(resp, "id").s # <<>>
        THEN [ok |-> TRUE, id |-> Get(resp, "id").s]
    ELSE [ok |-> FALSE, id |-> <<>>]

ToolCall(id, name, args) ==
    [id |-> id, name |-> name, arguments |-> args,
     type |-> "function_call", call_id |-> id]

\* a top-level call that is kept whenever it has an id
TopLevelCall_keepsUnnamed(i) ==
    LET id == IF IsString(Get(i, "call_id")) /\ Get(i, "call_id").s # <<>>
                  THEN Get(i, "call_id").s
                  ELSE StringOr(i, "id")
    IN IF id # <<>>
           THEN <<ToolCall(id, StringOr(i, "name"), StringOr(i, "arguments"))>>
           ELSE <<>>

\* A) a top-level function_call item
TopLevelCall(i) ==
    LET id == IF IsString(Get(i, "call_id")) /\ Get(i, "call_id").s # <<>>
                  THEN Get(i, "call_id").s
                  ELSE StringOr(i, "id")
        name == StringOr(i, "name")
        args == StringOr(i, "arguments")
    IN IF id # <<>> /\ name # <<>> THEN <<ToolCall(id, name, args)>> ELSE <<>>

\* B) a tool_call entry of a message's content
NestedCall(cc) ==
    LET fn == IF IsNullish(Get(cc, "function")) THEN Undefined
              ELSE Get(cc, "function")
        id == StringOr(cc, "id")
        name == IF IsString(Get(cc, "name")) THEN Get(cc, "name").s
                ELSE StringOr(fn, "name")
        args == IF IsString(Get(cc, "arguments")) THEN Get(cc, "arguments").s
                ELSE StringOr(fn, "arguments")
    IN IF id # <<>> /\ name # <<>> THEN <<ToolCall(id, name, args)>> ELSE <<>>

RECURSIVE NestedCalls(_)
NestedCalls(content) ==
    IF content = <<>> THEN <<>>
    ELSE (IF Get(Head(content), "type") = Str(<<"tool_call">>)
              THEN NestedCall(Head(content)) ELSE <<>>)
         \o NestedCalls(Tail(content))

RECURSIVE CallsOfItems(_)
CallsOfItems(output) ==
    IF output = <<>> THEN <<>>
    ELSE LET i == Head(output) IN
         (IF Get(i, "type") = Str(<<"function_call">>) THEN TopLevelCall(i)
          ELSE IF Get(i, "type") = Str(<<"message">>) /\ IsArray(Get(i, "content"))
              THEN NestedCalls(Get(i, "content").a)
          ELSE <<>>)
         \o CallsOfItems(Tail(output))

collectToolCalls(json) == CallsOfItems(getOutputArray(json))

\* collectToolCalls reads a property of json, of every output item and of
\* every content entry of a message item: a null or undefined one throws
collectToolCallsThrows(json) ==
    \/ IsNullish(json)
    \/ \E n \in 1..Len(getOutputArray(json)) :
          LET i == getOutputArray(json)[n] IN
          \/ IsNullish(i)
          \/ /\ Get(i, "type") = Str(<<"message">>)
             /\ IsArray(Get(i, "content"))
             /\ \E m \in 1..Len(Get(i, "content").a) :
                   IsNullish(Get(i, "content").a[m])

\* a parse that gives null, not {}, when JSON.parse throws
safeParseJSON_nullOnError(s) ==
    IF JSONParse(s).ok THEN JSONParse(s).v ELSE Null

\* safeParseJSON(s) for a string s: {} when JSON.parse throws, else whatever
\* JSON.parse returns (the cast to Record checks nothing)
safeParseJSON(s) ==
    LET r == JSONParse(s) IN IF r.ok THEN r.v ELSE EmptyObj

(***************************************************************************)
(* Text helpers of the parser                                              *)
(***************************************************************************)
\* the atom for a run of three backquotes, written with apostrophes here and
\* in the patterns quoted below
Fence == "'''"

\* toLowerCase of an atom, for the atoms that have upper-case letters
LowerCase(c) ==
    CASE c = "JSON" -> "json"
      [] c = "Mermaid" -> "mermaid"
      [] c = "<Mermaid" -> "<mermaid"
      [] c = "</Mermaid>" -> "</mermaid>"
      [] c = "Graph" -> "graph"
      [] c = "stateDiagram-v2" -> "statediagram-v2"
      [] c = "STATEDIAGRAM-V2" -> "statediagram-v2"
      [] c = "sequenceDiagram" -> "sequencediagram"
      [] c = "classDiagram" -> "classdiagram"
      [] c = "stateDiagram" -> "statediagram"
      [] c = "erDiagram" -> "erdiagram"
      [] c = "gitGraph" -> "gitgraph"
      [] c = "PIE" -> "pie"
      [] OTHER -> c

RECURSIVE TrimStart(_)
TrimStart(s) ==
    IF s # <<>> /\ IsWhitespace(Head(s)) THEN TrimStart(Tail(s)) ELSE s

RECURSIVE TrimEnd(_)
TrimEnd(s) ==
    IF s # <<>> /\ IsWhitespace(s[Len(s)])
        THEN TrimEnd(SubSeq(s, 1, Len(s) - 1)) ELSE s

\* String.prototype.trim
Trim(s) == TrimEnd(TrimStart(s))

\* position of the first atom at or after p whose lower case is a, else 0
IndexFrom(s, p, a) ==
    IF \E q \in p..Len(s) : LowerCase(s[q]) = a
        THEN CHOOSE q \in p..Len(s) :
                 /\ LowerCase(s[q]) = a
                 /\ \A r \in p..(q - 1) : LowerCase(s[r]) # a
        ELSE 0

\* s.match(/^'''(?:json)?\s*([\s\S]*?)'''$/i): the text between an opening
\* fence at the start and a closing fence at the very end, trimmed; else
\* s.trim()
stripCodeFences(s) ==
    IF Len(s) >= 2 /\ s[1] = Fence /\ s[Len(s)] = Fence
        THEN LET from == IF Len(s) >= 3 /\ LowerCase(s[2]) = "json" THEN 3 ELSE 2
             IN Trim(SubSeq(s, from, Len(s) - 1))
        ELSE Trim(s)

\* a coercion that keeps the white space around the diagram
coerceV2_untrimmed(j) ==
    [text |-> IF IsString(Get(j, "text")) THEN Get(j, "text").s
              ELSE StringOr(j, "answer"),
     mermaid |-> IF IsString(Get(j, "mermaid")) /\ Get(j, "mermaid").s # <<>>
                     THEN Get(j, "mermaid")
                 ELSE IF Get(j, "diagram").t \in {"obj", "arr"}
                         /\ IsString(Get(Get(j, "diagram"), "mermaid"))
                     THEN Get(Get(j, "diagram"), "mermaid")
                 ELSE Undefined]

\* coerceV2(j) for an object or array j: { text, mermaid }
coerceV2(j) ==
    LET text == IF IsString(Get(j, "text")) THEN Get(j, "text").s
                ELSE StringOr(j, "answer")
        diagram == Get(j, "diagram")
        mermaid ==
            IF IsString(Get(j, "mermaid")) /\ Trim(Get(j, "mermaid").s) # <<>>
                THEN Str(Trim(Get(j, "mermaid").s))
            ELSE IF diagram.t \in {"obj", "arr"} /\ IsString(Get(diagram, "mermaid"))
                THEN Str(Trim(Get(diagram, "mermaid").s))
            ELSE Undefined
    IN [text |-> text, mermaid |-> mermaid]

\* null, as safeParseV2 returns it
NoParse == [ok |-> FALSE, text |-> <<>>, mermaid |-> Undefined]

\* lines 252-257: coerceV2 of what JSON.parse returned, null when it threw
CoerceParsed(r) ==
    IF r.ok THEN [ok |-> TRUE] @@ coerceV2(r.v) ELSE NoParse

\* lines 251-257 for un = stripCodeFences(s)
ParseStripped(un) ==
    IF un = <<>> \/ un[1] # "{" THEN NoParse ELSE CoerceParsed(JSONParse(un))

\* safeParseV2(s): [ok |-> FALSE] stands for null
safeParseV2(s) ==
    IF s = <<>> THEN NoParse ELSE ParseStripped(stripCodeFences(s))

\* the lower-cased first token of a fenced block is tested against this list
\* (the list spells stateDiagram-v2 with an upper-case D)
FenceKeywords ==
    {"graph", "flowchart", "sequencediagram", "classdiagram", "statediagram",
     "stateDiagram-v2", "erdiagram", "gantt", "journey", "gitgraph", "pie"}

\* code.split(/\s+/)[0] is one atom when the second atom is white space
HeadIsKeyword(code) ==
    /\ code # <<>>
    /\ Len(code) = 1 \/ IsWhitespace(code[2])
    /\ LowerCase(code[1]) \in FenceKeywords

\* /'''(?:mermaid)\s*([\s\S]*?)'''/i.exec(s): the capture of the leftmost match
MermaidFence(s) ==
    LET starts == {q \in 1..Len(s) :
                      /\ s[q] = Fence
                      /\ q + 1 <= Len(s)
                      /\ LowerCase(s[q + 1]) = "mermaid"
                      /\ IndexFrom(s, q + 2, Fence) # 0}
    IN IF starts = {} THEN [found |-> FALSE, body |-> <<>>]
       ELSE LET q == CHOOSE x \in starts : \A y \in starts : x <= y
                w == SkipWs(s, q + 2)
            IN [found |-> TRUE,
                body |-> SubSeq(s, w, IndexFrom(s, q + 2, Fence) - 1)]

\* the loop over /'''([\s\S]*?)'''/g from position p on
RECURSIVE GenericFence(_, _)
GenericFence(s, p) ==
    LET open == IndexFrom(s, p, Fence)
        close == IF open = 0 THEN 0 ELSE IndexFrom(s, open + 1, Fence)
    IN IF close = 0 THEN Undefined
       ELSE LET code == Trim(SubSeq(s, open + 1, close - 1)) IN
            IF HeadIsKeyword(code) THEN Str(code)
            ELSE GenericFence(s, close + 1)

\* /<mermaid[^>]*>([\s\S]*?)<\/mermaid>/i.exec(s): the capture of the leftmost match
MermaidTag(s) ==
    LET starts == {q \in 1..Len(s) :
                      /\ LowerCase(s[q]) = "<mermaid"
                      /\ IndexFrom(s, q + 1, ">") # 0
                      /\ \A r \in (q + 1)..(IndexFrom(s, q + 1, ">") - 1) :
                            LowerCase(s[r]) # "</mermaid>"
                      /\ IndexFrom(s, IndexFrom(s, q + 1, ">") + 1, "</mermaid>") # 0}
    IN IF starts = {} THEN [found |-> FALSE, body |-> <<>>]
       ELSE LET q == CHOOSE x \in starts : \A y \in starts : x <= y
                g == IndexFrom(s, q + 1, ">")
            IN [found |-> TRUE,
                body |-> SubSeq(s, g + 1, IndexFrom(s, g + 1, "</mermaid>") - 1)]

\* lines 289-291
FromTag(tag) ==
    IF tag.found /\ tag.body # <<>> THEN Str(Trim(tag.body)) ELSE Undefined

\* lines 282-291, generic being what the loop returned
FromGeneric(s, generic) ==
    IF generic # Undefined THEN generic ELSE FromTag(MermaidTag(s))

\* lines 279-291
FromFence(s, fence) ==
    IF fence.found /\ fence.body # <<>> THEN Str(Trim(fence.body))
    ELSE FromGeneric(s, GenericFence(s, 1))

\* extractMermaid(s): a string, or undefined
extractMermaid(s) ==
    IF s = <<>> THEN Undefined ELSE FromFence(s, MermaidFence(s))

(***************************************************************************)
(* OpenAIResponsesClient.parseResponseV2                                   *)
(***************************************************************************)
\* a result that does not keep the response it was parsed from
AssistantResult_withoutRaw(text, mermaid, raw) ==
    [text |-> text, mermaid |-> mermaid, raw |-> Undefined]

AssistantResult(text, mermaid, raw) ==
    [text |-> text, mermaid |-> mermaid, raw |-> raw]

NoResult == [found |-> FALSE, text |-> <<>>, mermaid |-> Undefined]

\* a return of the first loop with the { text, mermaid } it found
Returns(r) == [found |-> TRUE, text |-> r.text, mermaid |-> r.mermaid]

\* lines 153-154: return only when safeParseV2 did not give null
ReturnsIfParsed(r) == IF r.ok THEN Returns(r) ELSE NoResult

\* lines 147-155 for one content entry
ScanEntry(cc) ==
    IF /\ Get(cc, "type") = Str(<<"output_json">>)
       /\ Get(cc, "json").t \in {"obj", "arr"}
        THEN Returns(coerceV2(Get(cc, "json")))
    ELSE IF Get(cc, "type") = Str(<<"output_text">>) /\ IsString(Get(cc, "text"))
        THEN ReturnsIfParsed(safeParseV2(Get(cc, "text").s))
    ELSE NoResult

\* first loop, one content array: the first entry that returns
RECURSIVE ScanContent(_)
RECURSIVE ScanContentFrom(_, _)
ScanContent(content) ==
    IF content = <<>> THEN NoResult
    ELSE ScanContentFrom(ScanEntry(Head(content)), Tail(content))

ScanContentFrom(first, rest) ==
    IF first.found THEN first ELSE ScanContent(rest)

\* lines 144-157 for one output item
ScanItem(i) ==
    IF Get(i, "type") = Str(<<"message">>) /\ IsArray(Get(i, "content"))
        THEN ScanContent(Get(i, "content").a) ELSE NoResult

RECURSIVE ScanItems(_)
RECURSIVE ScanItemsFrom(_, _)
ScanItems(output) ==
    IF output = <<>> THEN NoResult
    ELSE ScanItemsFrom(ScanItem(Head(output)), Tail(output))

ScanItemsFrom(first, rest) ==
    IF first.found THEN first ELSE ScanItems(rest)

\* last loop: the text chunks of one content array, concatenated
RECURSIVE StitchContent(_)
StitchContent(content) ==
    IF content = <<>> THEN <<>>
    ELSE LET cc == Head(content) IN
         (IF Get(cc, "type") = Str(<<"output_text">>) /\ IsString(Get(cc, "text"))
              THEN Get(cc, "text").s ELSE <<>>)
         \o StitchContent(Tail(content))

RECURSIVE StitchItems(_)
StitchItems(output) ==
    IF output = <<>> THEN <<>>
    ELSE LET i == Head(output) IN
         (IF Get(i, "type") = Str(<<"message">>) /\ IsArray(Get(i, "content"))
              THEN StitchContent(Get(i, "content").a) ELSE <<>>)
         \o StitchItems(Tail(output))

\* the loops read a property of json, of every output item they reach and of
\* every content entry they reach; for responses whose items and entries are
\* objects this is the same set as for collectToolCalls
parseResponseV2Throws(json) ==
    \/ IsNullish(json)
    \/ \E n \in 1..Len(getOutputArray(json)) :
          LET i == getOutputArray(json)[n] IN
          /\ ~ScanItems(SubSeq(getOutputArray(json), 1, n - 1)).found
          /\ \/ IsNullish(i)
             \/ /\ Get(i, "type") = Str(<<"message">>)
                /\ IsArray(Get(i, "content"))
                /\ \E m \in 1..Len(Get(i, "content").a) :
                      /\ IsNullish(Get(i, "content").a[m])
                      /\ ~ScanContent(SubSeq(Get(i, "content").a, 1, m - 1)).found

\* a text stage that never tries the JSON coercion
FromText_noCoercion(s, parsed, json) == AssistantResult(s, extractMermaid(s), json)

\* lines 162-164 and 178-180: the coerced JSON when safeParseV2 gave one,
\* else the text itself with the diagram the extractor finds in it
FromText(s, parsed, json) ==
    IF parsed.ok THEN AssistantResult(parsed.text, parsed.mermaid, json)
    ELSE AssistantResult(s, extractMermaid(s), json)

\* a last stage that reports an empty stitched text with a note
FromCombined_noContentNote(combined, json) ==
    IF combined = <<>> THEN AssistantResult(<<"No", " ", "content">>, Undefined, json)
    ELSE FromText(combined, safeParseV2(combined), json)

\* lines 178-180 for the stitched text
FromCombined(combined, json) == FromText(combined, safeParseV2(combined), json)

\* lines 160-180, agg being output_text when it is a string, else ''
AfterScan(agg, json) ==
    IF agg # <<>> THEN FromText(agg, safeParseV2(agg), json)
    ELSE FromCombined(StitchItems(getOutputArray(json)), json)

\* a parser that prefers the aggregated output_text to the scan's result
FromScan_aggregatedFirst(scan, json) ==
    IF StringOr(json, "output_text") # <<>>
        THEN AfterScan(StringOr(json, "output_text"), json)
    ELSE IF scan.found THEN AssistantResult(scan.text, scan.mermaid, json)
    ELSE AfterScan(<<>>, json)

\* lines 143-180, scan being what the first loop returned
FromScan(scan, json) ==
    IF scan.found THEN AssistantResult(scan.text, scan.mermaid, json)
    ELSE AfterScan(StringOr(json, "output_text"), json)

parseResponseV2(json) == FromScan(ScanItems(getOutputArray(json)), json)

(***************************************************************************)
(* Requests built by chat()                                                *)
(***************************************************************************)
\* the structured-output declaration sent as `text`
TEXT_FORMAT ==
    [format |->
        [type |-> "json_schema", name |-> "DiagramAssistantOutput",
         schema |-> [type |-> "object", additionalProperties |-> FALSE,
                     properties |-> {"text", "mermaid", "syntaxHeader"},
                     required |-> <<"text", "mermaid", "syntaxHeader">>],
         strict |-> TRUE]]

\* declarations that are sent whether or not a handler is supplied
toolDefs_always(opts) ==
    Arr(<<[type |-> "function", name |-> "get_mermaid_docs",
           parameters |-> [type |-> "object",
                           properties |-> [kind |-> [type |-> "string"]],
                           required |-> <<"kind">>,
                           additionalProperties |-> FALSE]]>>)

\* toolDefs: one declaration when a handler is supplied, else undefined
toolDefs(opts) ==
    IF opts.onGetMermaidDocs
        THEN Arr(<<[type |-> "function", name |-> "get_mermaid_docs",
                    parameters |-> [type |-> "object",
                                    properties |-> [kind |-> [type |-> "string"]],
                                    required |-> <<"kind">>,
                                    additionalProperties |-> FALSE]]>>)
        ELSE Undefined

\* a request body; a property whose value is undefined is left out by
\* JSON.stringify, so Undefined stands for a property that is not sent
InitialBody(model, msgs, opts) ==
    [previous_response_id |-> Undefined,
     model |-> model,
     input |-> Arr(msgs),
     temperature |-> Num("0.2"),
     text |-> TEXT_FORMAT,
     tools |-> toolDefs(opts),
     tool_choice |-> IF Truthy(toolDefs(opts)) THEN Str(<<"auto">>) ELSE Undefined]

ContinuationBody(model, anchor, items, opts) ==
    [previous_response_id |-> Str(anchor),
     model |-> model,
     input |-> Arr(items),
     temperature |-> Undefined,
     text |-> TEXT_FORMAT,
     tools |-> toolDefs(opts),
     tool_choice |-> Str(<<"auto">>)]

FunctionCallOutputItem(call_id, output) ==
    [type |-> "function_call_output", call_id |-> call_id, output |-> output]

\* an item whose output is the document text itself, not its JSON encoding
OutputItemFor_rawDoc(tc, docs) ==
    FunctionCallOutputItem(IF tc.call_id # <<>> THEN tc.call_id ELSE tc.id,
                           docs.syntaxDoc)

\* the item pushed for call tc after the handler returned docs
OutputItemFor(tc, docs) ==
    FunctionCallOutputItem(IF tc.call_id # <<>> THEN tc.call_id ELSE tc.id,
                           StringifyDocs(docs.syntaxDoc, docs.sourceUrl))

\* String(args.kind ?? '') for args that are not null
KindOf(args) ==
    IF IsNullish(Get(args, "kind")) THEN <<>> ELSE JsString(Get(args, "kind"))

\* the fetch call of postCreate
FetchCall(cl, body) ==
    [url |-> cl.baseUrl \o <<"/v1/responses">>,
     method |-> "POST",
     headers |-> [ContentType |-> <<"application/json">>,
                  Authorization |-> <<"Bearer ">> \o cl.apiKey],
     body |-> body]

\* constructor: baseUrl defaults to the public endpoint and loses its
\* trailing slashes
RECURSIVE StripTrailingSlashes(_)
StripTrailingSlashes(s) ==
    IF s # <<>> /\ s[Len(s)] = "/"
        THEN StripTrailingSlashes(SubSeq(s, 1, Len(s) - 1)) ELSE s

Constructor(opts) ==
    [apiKey |-> opts.apiKey,
     model |-> opts.model,
     baseUrl |-> StripTrailingSlashes(
                    IF IsNullish(opts.baseUrl) THEN <<"https://api.openai.com">>
                    ELSE opts.baseUrl.s)]

(***************************************************************************)
(* The environment: what the caller passes, what the service answers and   *)
(* what the documentation handler returns                                  *)
(***************************************************************************)
\* the largest number of tool calls in one response of the service
MaxCalls == 2

ClientOptions ==
    [apiKey |-> <<"sk-1">>, model |-> <<"gpt-x">>,
     baseUrl |-> Str(<<"https://gateway", "/", "/">>)]

MessageLists ==
    { <<[role |-> "user", content |-> <<"draw", " ", "a", " ", "flow">>]>>,
      <<[role |-> "system", content |-> <<"You", " ", "draw">>],
        [role |-> "user", content |-> <<"hello">>],
        [role |-> "assistant", content |-> <<"hi">>]>> }

\* results of options.onGetMermaidDocs
HandlerDocs ==
    { [syntaxDoc |-> <<"Use", " ", Quote, "graph", Quote, Newline>>,
       sourceUrl |-> <<"https://mermaid.js.org/flowchart">>],
      [syntaxDoc |-> <<>>, sourceUrl |-> <<"about:blank">>] }

HandlerFailure == [name |-> "Error", message |-> <<"docs unavailable">>]

\* non-success replies: r.status and r.text()
HttpFailures ==
    { [status |-> "500", text |-> <<"server", " ", "error">>],
      [status |-> "429", text |-> <<>>] }

ArgsFlowchart == <<"{", Quote, "kind", Quote, ":", Quote, "flowchart", Quote, "}">>

ArgsNumber == <<"{", Quote, "kind", Quote, ":", " ", "5", "}">>

ArgsMalformed == <<"{", Quote, "kind", Quote, ":">>

ArgsNull == <<"null">>

TypeIs(ty) == Field("type", Str(<<ty>>))

\* a top-level function_call item with a call_id
CallItem(call_id, name, args) ==
    Obj(TypeIs("function_call") @@ Field("call_id", Str(call_id))
        @@ Field("id", Str(<<"fc_0">>)) @@ Field("name", Str(name))
        @@ Field("arguments", Str(args)))

\* a top-level function_call item that has only the generic id
IdOnlyCallItem(id, name, args) ==
    Obj(TypeIs("function_call") @@ Field("id", Str(id))
        @@ Field("name", Str(name)) @@ Field("arguments", Str(args)))

MessageItem(content) == Obj(TypeIs("message") @@ Field("content", Arr(content)))

TextEntry(text) == Obj(TypeIs("output_text") @@ Field("text", Str(text)))

\* a nested tool_call with the function-object layout
NestedEntry(id, name, args) ==
    Obj(TypeIs("tool_call") @@ Field("id", Str(id))
        @@ Field("function", Obj(Field("name", Str(name))
                                 @@ Field("arguments", Str(args)))))

\* n pending calls: odd ones are get_mermaid_docs calls with call_id call_1,
\* even ones calls of another tool with malformed arguments and only an id
RECURSIVE BurstItems(_)
BurstItems(n) ==
    IF n = 0 THEN <<>>
    ELSE Append(BurstItems(n - 1),
                IF n % 2 = 1
                    THEN CallItem(<<"call_1">>, <<"get_mermaid_docs">>, ArgsFlowchart)
                    ELSE IdOnlyCallItem(<<"fc_2">>, <<"other_tool">>, ArgsMalformed))

StructuredAnswer ==
    Obj(Field("id", Str(<<"resp_f">>))
        @@ Field("output_text", Str(<<"aggregated">>))
        @@ Field("output", Arr(<<MessageItem(<<
              Obj(TypeIs("output_json")
                  @@ Field("json", Obj(Field("text", Str(<<"Here", " ", "it", " ", "is">>))
                                       @@ Field("mermaid", Str(<<"graph", " ", "TD", Newline>>)))))
           >>)>>)))

TextAnswer ==
    Obj(Field("id", Str(<<"resp_t">>))
        @@ Field("output_text",
                 Str(<<"See", Newline, Fence, "mermaid", Newline, "pie", Newline, Fence>>)))

EmptyAnswer == EmptyObj

\* calls that the detector drops: no name, empty id
DroppedCalls ==
    Obj(Field("id", Str(<<"resp_d">>))
        @@ Field("output", Arr(<<
              Obj(TypeIs("function_call") @@ Field("call_id", Str(<<"call_9">>))
                  @@ Field("arguments", Str(ArgsFlowchart))),
              MessageItem(<<TextEntry(<<"plain">>),
                            NestedEntry(<<>>, <<"get_mermaid_docs">>, ArgsFlowchart)>>)
           >>)))

OneCall ==
    Obj(Field("id", Str(<<"resp_a">>))
        @@ Field("response", Obj(Field("id", Str(<<"resp_n">>))))
        @@ Field("output", Arr(<<CallItem(<<"call_1">>, <<"get_mermaid_docs">>,
                                          ArgsFlowchart)>>)))

\* anchor only in the nested response.id
NestedCallAnswer ==
    Obj(Field("response", Obj(Field("id", Str(<<"resp_n">>))))
        @@ Field("output", Arr(<<MessageItem(<<
              TextEntry(<<"thinking">>),
              NestedEntry(<<"tc_1">>, <<"other_tool">>, ArgsNumber)>>)>>)))

\* top-level id is the empty string, arguments do not parse
MalformedArgs ==
    Obj(Field("id", Str(<<>>))
        @@ Field("response", Obj(Field("id", Str(<<"resp_m">>))))
        @@ Field("output", Arr(<<IdOnlyCallItem(<<"fc_2">>, <<"get_mermaid_docs">>,
                                                ArgsMalformed)>>)))

NullArgs ==
    Obj(Field("id", Str(<<"resp_z">>))
        @@ Field("output", Arr(<<CallItem(<<"call_3">>, <<"get_mermaid_docs">>,
                                          ArgsNull)>>)))

\* a pending call and no anchor: id is a number, response.id is empty
NoAnchor ==
    Obj(Field("id", Num("5"))
        @@ Field("response", Obj(Field("id", Str(<<>>))))
        @@ Field("output_text", Str(<<"partial">>))
        @@ Field("output", Arr(<<CallItem(<<"call_1">>, <<"get_mermaid_docs">>,
                                          ArgsFlowchart)>>)))

Burst(n) ==
    Obj(Field("id", Str(<<"resp_b">>)) @@ Field("output", Arr(BurstItems(n))))

\* the JSON bodies the service may answer with
Responses ==
    {StructuredAnswer, TextAnswer, EmptyAnswer, DroppedCalls, OneCall,
     NestedCallAnswer, MalformedArgs, NullArgs, NoAnchor}
    \cup {Burst(n) : n \in 2..MaxCalls}

(***************************************************************************)
(* One chat() invocation.  JavaScript runs the code between two awaits     *)
(* without interruption, so an action is one such run: the call itself,    *)
(* the arrival of an HTTP reply, and the completion of a handler call.     *)
(***************************************************************************)
VARIABLES
    client,             \* the fields of the OpenAIResponsesClient
    messages,           \* chat's first argument
    options,            \* chat's second argument: is onGetMermaidDocs supplied
    pc,                 \* "idle", "post" (awaiting postCreate),
                        \* "handler" (awaiting onGetMermaidDocs) or "done"
    current,            \* local of chat: the last response
    i,                  \* local of chat: the loop counter
    calls,              \* local of chat: collectToolCalls(current)
    tc,                 \* position in calls of the call being handled
    continuationInput,  \* local of chat: the items built in this round
    outcome,            \* the promise chat returned
    requests,           \* every fetch call made, in order
    replies,            \* every HTTP reply received, in order
    handlerLog,         \* every call of onGetMermaidDocs, in order
    parsed,             \* every response handed to parseResponseV2, in order
    given,              \* the argument of a function called on its own
    result,             \* what that call returned or threw
    other,              \* the locals of a second chat() invocation on the
                        \* same client while it is suspended at an await
    onSend,             \* AIChatPane: is the onSend prop supplied
    paneMessages,       \* AIChatPane: the state messages
    paneInput,          \* AIChatPane: the state input
    busy,               \* AIChatPane: the state busy
    awaited,            \* AIChatPane: the send calls waiting for onSend
    sendLog,            \* AIChatPane: what every call of send did, in order
    parseError,         \* the global mermaid.parseError hook
    validations         \* the validate calls: their position and locals

chatVars ==
    <<client, messages, options, pc, current, i, calls, tc, continuationInput,
      outcome, requests, replies, handlerLog, parsed>>

\* the chat pane
paneVars == <<onSend, paneMessages, paneInput, busy, awaited, sendLog>>

\* the validation of the editor's text
hookVars == <<parseError, validations>>

\* what no step of chat() touches
outsideChat == <<given, result, other, paneVars, hookVars>>

\* the pane before it is used, onSend being supplied or not
PaneMounted(supplied) ==
    /\ onSend = supplied
    /\ paneMessages = <<>>
    /\ paneInput = <<>>
    /\ busy = FALSE
    /\ awaited = <<>>
    /\ sendLog = <<>>

\* no validation was started; the hook has the value original
NoValidation(original) ==
    /\ parseError = original
    /\ validations = <<>>

vars == <<chatVars, outsideChat>>

\* there is no second invocation
NoInvocation == [pc |-> "none"]

\* a function called on its own: not yet called, returned v, threw e
NotCalled == [done |-> FALSE, threw |-> FALSE, value |-> Undefined]

Value(v) == [done |-> TRUE, threw |-> FALSE, value |-> v]

Threw(e) == [done |-> TRUE, threw |-> TRUE, value |-> e]

\* the loop bound of chat
MaxRounds == 3

\* a loop test that lets one round more through
RoundAllowed_inclusive(r) == r <= MaxRounds

\* line 91: the loop test i < 3
RoundAllowed(r) == r < MaxRounds

Pending == [state |-> "pending"]

Fulfilled(value) == [state |-> "fulfilled", value |-> value]

\* reason is the thrown value, site the statement that threw it
Rejected(reason, site) == [state |-> "rejected", reason |-> reason, site |-> site]

\* an error that names the status and drops the body
TransportError_statusOnly(status, text) ==
    [name |-> "Error", message |-> <<"OpenAI ", status>>]

TransportError(status, text) ==
    [name |-> "Error", message |-> <<"OpenAI ", status, ": ">> \o text]

MissingAnchorError ==
    [name |-> "Error", message |-> <<"Missing response.id when continuing tool calls">>]

NullArgsError ==
    [name |-> "TypeError",
     message |-> <<"Cannot read properties of null (reading 'kind')">>]

ParseTypeError ==
    [name |-> "TypeError", message |-> <<"Cannot read properties of null">>]

Init ==
    /\ client = Constructor(ClientOptions)
    /\ messages \in MessageLists
    /\ options \in [onGetMermaidDocs : BOOLEAN]
    /\ pc = "idle"
    /\ current = Undefined
    /\ i = 0
    /\ calls = <<>>
    /\ tc = 0
    /\ continuationInput = <<>>
    /\ outcome = Pending
    /\ requests = <<>>
    /\ replies = <<>>
    /\ handlerLog = <<>>
    /\ parsed = <<>>
    /\ given = Undefined
    /\ result = NotCalled
    /\ other = NoInvocation
    /\ PaneMounted(FALSE)
    /\ NoValidation(Undefined)

\* an error that is lost: chat stops and its promise stays pending
Throw_neverSettles(reason, site) ==
    /\ pc' = "lost"
    /\ outcome' = Pending

\* chat throws: its promise rejects and nothing else happens
Throw(reason, site) ==
    /\ pc' = "done"
    /\ outcome' = Rejected(reason, site)

\* a final parse of the first response instead of the last
ParseFinal_firstResponse(cur) ==
    /\ parsed' = Append(parsed, replies'[1].json)
    /\ pc' = "done"
    /\ outcome' = Fulfilled(parseResponseV2(replies'[1].json))
    /\ UNCHANGED <<requests, handlerLog>>

\* line 124: return this.parseResponseV2(current)
ParseFinal(cur) ==
    /\ parsed' = Append(parsed, cur)
    /\ IF parseResponseV2Throws(cur)
           THEN Throw(ParseTypeError, "parseResponseV2")
           ELSE /\ pc' = "done"
                /\ outcome' = Fulfilled(parseResponseV2(cur))
    /\ UNCHANGED <<requests, handlerLog>>

\* a dispatch that looks at the name and refuses a call of another tool
Dispatch_byName(log, r, cs, k) ==
    LET args == safeParseJSON(cs[k].arguments) IN
    /\ IF IsNullish(args) \/ cs[k].name # <<"get_mermaid_docs">>
           THEN /\ Throw(NullArgsError, "args.kind")
                /\ handlerLog' = log
           ELSE /\ pc' = "handler"
                /\ handlerLog' = Append(log,
                       [round |-> r, index |-> k, kind |-> KindOf(args),
                        state |-> "pending", syntaxDoc |-> <<>>, sourceUrl |-> <<>>])
                /\ UNCHANGED outcome
    /\ UNCHANGED <<requests, parsed>>

\* lines 100-102 for call k of cs in round r: parse the arguments, read the
\* kind and call the handler, whose promise chat then awaits; log is the
\* handler log so far
Dispatch(log, r, cs, k) ==
    LET args == safeParseJSON(cs[k].arguments) IN
    /\ IF IsNullish(args)
           THEN /\ Throw(NullArgsError, "args.kind")
                /\ handlerLog' = log
           ELSE /\ pc' = "handler"
                /\ handlerLog' = Append(log,
                       [round |-> r, index |-> k, kind |-> KindOf(args),
                        state |-> "pending", syntaxDoc |-> <<>>, sourceUrl |-> <<>>])
                /\ UNCHANGED outcome
    /\ UNCHANGED <<requests, parsed>>

\* a loop that does not look for the handler before it dispatches
LoopBreaks_ignoreHandler(cs) == cs = <<>>

\* line 93: if (!calls.length || !options?.onGetMermaidDocs) break
LoopBreaks(cs) == cs = <<>> \/ ~options.onGetMermaidDocs

\* lines 91-96 with current = cur and i = r
LoopHead(cur, r) ==
    IF RoundAllowed(r)
        THEN IF collectToolCallsThrows(cur)
                 THEN /\ Throw(ParseTypeError, "collectToolCalls")
                      /\ UNCHANGED <<calls, tc, continuationInput,
                                     requests, handlerLog, parsed>>
             ELSE IF LoopBreaks(collectToolCalls(cur))
                 THEN /\ calls' = collectToolCalls(cur)
                      /\ ParseFinal(cur)
                      /\ UNCHANGED <<tc, continuationInput>>
             ELSE /\ calls' = collectToolCalls(cur)
                  /\ continuationInput' = <<>>
                  /\ tc' = 1
                  /\ Dispatch(handlerLog, r, collectToolCalls(cur), 1)
        ELSE /\ ParseFinal(cur)
             /\ UNCHANGED <<calls, tc, continuationInput>>

\* a continuation that resends the conversation before the tool outputs
Continue_withHistory(input) ==
    IF getResponseId(current).ok
        THEN /\ requests' = Append(requests,
                    FetchCall(client, ContinuationBody(client.model,
                                  getResponseId(current).id, messages \o input, options)))
             /\ pc' = "post"
             /\ UNCHANGED outcome
        ELSE /\ Throw(MissingAnchorError, "getResponseId")
             /\ UNCHANGED requests

\* lines 113-120: the continuation request, whose first property is the anchor
Continue(input) ==
    IF getResponseId(current).ok
        THEN /\ requests' = Append(requests,
                    FetchCall(client, ContinuationBody(client.model,
                                  getResponseId(current).id, input, options)))
             /\ pc' = "post"
             /\ UNCHANGED outcome
        ELSE /\ Throw(MissingAnchorError, "getResponseId")
             /\ UNCHANGED requests

\* chat(messages, options) up to its first await
Chat ==
    /\ pc = "idle"
    /\ requests' = Append(requests,
           FetchCall(client, InitialBody(client.model, messages, options)))
    /\ pc' = "post"
    /\ UNCHANGED <<client, messages, options, current, i, calls, tc,
                   continuationInput, outcome, replies, handlerLog, parsed>>
    /\ UNCHANGED outsideChat

\* postCreate returns json; chat runs on to its next await or to its end
PostOk(json) ==
    /\ pc = "post"
    /\ replies' = Append(replies, [ok |-> TRUE, status |-> "200", json |-> json,
                                   text |-> <<>>])
    /\ current' = json
    /\ i' = IF Len(replies) = 0 THEN 0 ELSE i + 1
    /\ LoopHead(json, i')
    /\ UNCHANGED <<client, messages, options, outsideChat>>

\* postCreate throws on a status that is not ok
PostFail(failure) ==
    /\ pc = "post"
    /\ replies' = Append(replies, [ok |-> FALSE, status |-> failure.status,
                                   json |-> Undefined, text |-> failure.text])
    /\ Throw(TransportError(failure.status, failure.text), "postCreate")
    /\ UNCHANGED <<client, messages, options, current, i, calls, tc,
                   continuationInput, requests, handlerLog, parsed>>
    /\ UNCHANGED outsideChat

\* the handler's result recorded in the last entry of the log
Returned(log, docs) ==
    [log EXCEPT ![Len(log)] = [@ EXCEPT !.state = "resolved",
                                        !.syntaxDoc = docs.syntaxDoc,
                                        !.sourceUrl = docs.sourceUrl]]

\* a round that sends its continuation request as soon as one handler
\* call has returned, while the next call of the round is still running
HandlerResolve_unawaited(docs) ==
    /\ pc = "handler"
    /\ continuationInput' = Append(continuationInput, OutputItemFor(calls[tc], docs))
    /\ IF tc < Len(calls)
           THEN /\ tc' = tc + 1
                /\ handlerLog' = Append(Returned(handlerLog, docs),
                       [round |-> i, index |-> tc + 1, kind |-> <<>>,
                        state |-> "pending", syntaxDoc |-> <<>>, sourceUrl |-> <<>>])
           ELSE /\ handlerLog' = Returned(handlerLog, docs)
                /\ UNCHANGED tc
    /\ Continue(continuationInput')
    /\ UNCHANGED <<client, messages, options, current, i, calls, replies, parsed>>
    /\ UNCHANGED outsideChat

\* the handler returns docs: push the item (lines 105-109), then handle the
\* next call or send the continuation request
HandlerResolve(docs) ==
    /\ pc = "handler"
    /\ continuationInput' = Append(continuationInput, OutputItemFor(calls[tc], docs))
    /\ IF tc < Len(calls)
           THEN /\ tc' = tc + 1
                /\ Dispatch(Returned(handlerLog, docs), i, calls, tc + 1)
           ELSE /\ handlerLog' = Returned(handlerLog, docs)
                /\ Continue(continuationInput')
                /\ UNCHANGED <<tc, parsed>>
    /\ UNCHANGED <<client, messages, options, current, i, calls, replies>>
    /\ UNCHANGED outsideChat

\* a handler failure that is caught: the call gets no item and the round goes
\* on with the next call or with the continuation request
HandlerReject_caught ==
    /\ pc = "handler"
    /\ IF tc < Len(calls)
           THEN /\ tc' = tc + 1
                /\ Dispatch([handlerLog EXCEPT ![Len(handlerLog)].state = "rejected"],
                            i, calls, tc + 1)
           ELSE /\ handlerLog' = [handlerLog EXCEPT ![Len(handlerLog)].state = "rejected"]
                /\ Continue(continuationInput)
                /\ UNCHANGED <<tc, parsed>>
    /\ UNCHANGED <<client, messages, options, current, i, calls,
                   continuationInput, replies>>
    /\ UNCHANGED outsideChat

\* the handler's promise rejects: the await throws inside chat
HandlerReject ==
    /\ pc = "handler"
    /\ handlerLog' = [handlerLog EXCEPT ![Len(handlerLog)].state = "rejected"]
    /\ Throw(HandlerFailure, "onGetMermaidDocs")
    /\ UNCHANGED <<client, messages, options, current, i, calls, tc,
                   continuationInput, requests, replies, parsed>>
    /\ UNCHANGED outsideChat

Next ==
    \/ Chat
    \/ \E json \in Responses : PostOk(json)
    \/ \E failure \in HttpFailures : PostFail(failure)
    \/ \E docs \in HandlerDocs : HandlerResolve(docs)
    \/ HandlerReject

Spec == Init /\ [][Next]_vars

\* the fetch of postCreate settles: the service answers or fails
Replied ==
    \/ \E failure \in HttpFailures : PostFail(failure)
    \/ \E json \in Responses : PostOk(json)

\* the promise of options.onGetMermaidDocs settles
Handled ==
    \/ HandlerReject
    \/ \E docs \in HandlerDocs : HandlerResolve(docs)

\* chat() when no request and no handler call stays pending for ever
FairSpec == Init /\ [][Next]_vars /\ WF_vars(Replied) /\ WF_vars(Handled)

(***************************************************************************)
(* The parser, the extractor and the detector called on their own: given   *)
(* is the argument and result what the call returned or threw.  The        *)
(* variables of chat keep the values they have before chat is called.      *)
(***************************************************************************)
ChatNotCalled ==
    /\ client = Constructor(ClientOptions)
    /\ messages = <<>>
    /\ options = [onGetMermaidDocs |-> FALSE]
    /\ pc = "idle"
    /\ current = Undefined
    /\ i = 0
    /\ calls = <<>>
    /\ tc = 0
    /\ continuationInput = <<>>
    /\ outcome = Pending
    /\ requests = <<>>
    /\ replies = <<>>
    /\ handlerLog = <<>>
    /\ parsed = <<>>
    /\ other = NoInvocation

\* the longest content array and the longest output array given to the parser
MaxEntries == 2

MaxItems == 2

\* all sequences over S of length at most n
SeqUpTo(S, n) == UNION {[1..m -> S] : m \in 0..n}

PayloadTexts == {<<>>, <<"Here", " ", "it", " ", "is">>}

\* diagram strings: clean, padded with white space, white space only
CleanDiagram == <<"graph", " ", "TD">>

PaddedDiagram == <<" ", "graph", " ", "TD", Newline>>

BlankDiagram == <<" ", Newline>>

PayloadDiagrams == {CleanDiagram, PaddedDiagram, BlankDiagram}

Payload(T, D) == Obj(Field("text", Str(T)) @@ Field("mermaid", Str(D)))

\* the same content under the synonyms: answer and diagram.mermaid
SynonymPayload ==
    Obj(Field("answer", Str(<<"An", " ", "answer">>))
        @@ Field("diagram", Obj(Field("mermaid", Str(<<"pie", Newline>>)))))

JsonEntry(payload) == Obj(TypeIs("output_json") @@ Field("json", payload))

\* {"text":"From JSON","mermaid":"gantt"} as the characters of a text chunk
JsonChunk ==
    <<"{", Quote, "text", Quote, ":", Quote, "From", " ", "JSON", Quote, ",",
      Quote, "mermaid", Quote, ":", Quote, "gantt", Quote, "}">>

\* the same JSON text inside a fenced block labeled json
FencedJsonChunk == <<Fence, "JSON", Newline>> \o JsonChunk \o <<Newline, Fence>>

\* text that starts like an object and does not parse
BrokenJsonChunk == <<"{", Quote, "text", Quote, ":">>

\* prose with a fenced block labeled mermaid
FencedDiagramChunk ==
    <<"See", Newline, Fence, "mermaid", Newline, "pie", Newline, Fence>>

\* the rest of the object that BrokenJsonChunk starts
TailJsonChunk == <<Quote, "Stitched", Quote, "}">>

ChunkTexts ==
    {<<"plain", " ">>, JsonChunk, FencedJsonChunk, BrokenJsonChunk, TailJsonChunk,
     FencedDiagramChunk}

\* the content entries: structured payloads, text chunks, entries of a wrong
\* type and entries that are not objects
ParserEntries ==
    {JsonEntry(Payload(T, D)) : T \in PayloadTexts, D \in PayloadDiagrams}
    \cup {JsonEntry(EmptyObj), JsonEntry(SynonymPayload), JsonEntry(Null)}
    \cup {TextEntry(t) : t \in ChunkTexts}
    \cup {Obj(TypeIs("output_text") @@ Field("text", Num("5"))),
          Obj(TypeIs("refusal")), Null, Num("5")}

\* aggregated texts: prose, {"answer":"Agg"}, prose with a fenced block
PlainAggregate == <<"aggregated">>

JsonAggregate == <<"{", Quote, "answer", Quote, ":", Quote, "Agg", Quote, "}">>

FencedAggregate == <<"Or", Newline, Fence, "flowchart", " ", "LR", Fence>>

\* the aggregated output_text: absent, empty, of a wrong type, or a text
Aggregates ==
    {Undefined, Num("5"), Str(<<>>), Str(PlainAggregate), Str(JsonAggregate),
     Str(FencedAggregate)}

\* a response with this output collection and this output_text
ResponseOf(output, agg) ==
    Obj(Field("output", output)
        @@ (IF agg = Undefined THEN <<>> ELSE Field("output_text", agg)))

\* output items other than a message with one entry
OtherItems ==
    {Null, Num("5"), CallItem(<<"call_1">>, <<"get_mermaid_docs">>, ArgsFlowchart),
     Obj(TypeIs("message") @@ Field("content", Str(<<"text">>)))}

\* the entries used in output collections of several items
ItemEntries ==
    {TextEntry(<<"plain", " ">>), TextEntry(BrokenJsonChunk), TextEntry(JsonChunk),
     JsonEntry(EmptyObj), Null}

\* the output items used in output collections of several items
ParserItems == OtherItems \cup {MessageItem(<<e>>) : e \in ItemEntries}

\* given is a response with one message item, a response with several
\* items, a response whose output is no array, or no object at all
ParserInit ==
    /\ ChatNotCalled
    /\ result = NotCalled
    /\ PaneMounted(FALSE)
    /\ NoValidation(Undefined)
    /\ \E agg \in Aggregates :
          \/ \E content \in SeqUpTo(ParserEntries, MaxEntries) :
                given = ResponseOf(Arr(<<MessageItem(SubSeq(content, 1, Len(content)))>>), agg)
          \/ \E output \in SeqUpTo(ParserItems, MaxItems) :
                given = ResponseOf(Arr(SubSeq(output, 1, Len(output))), agg)
          \/ \E output \in {Undefined, Null, Str(<<"none">>), EmptyObj} :
                given = ResponseOf(output, agg)
          \/ given \in {Null, Num("5"), Arr(<<>>)}

\* parseResponseV2(given)
ParseResponse ==
    /\ result = NotCalled
    /\ result' = IF parseResponseV2Throws(given)
                     THEN Threw(ParseTypeError)
                     ELSE Value(parseResponseV2(given))
    /\ UNCHANGED <<chatVars, given, other, paneVars, hookVars>>

ParserSpec == ParserInit /\ [][ParseResponse]_vars

\* the most segments a text given to the extractor is made of
MaxSegments == 3

\* the spellings of the diagram kinds that are tried as the first token of a
\* fenced block: the 11 documented ones and some in another casing
KeywordSpellings ==
    {"graph", "flowchart", "sequenceDiagram", "classDiagram", "stateDiagram",
     "stateDiagram-v2", "erDiagram", "gantt", "journey", "gitGraph", "pie",
     "Graph", "PIE", "STATEDIAGRAM-V2"}

\* a fenced block whose first token is head
BlockOf(head) == <<Fence, head, " ", "A-->B", Newline, Fence>>

\* the segments that texts of several segments are made of: prose, fenced
\* blocks labeled mermaid (with content, without), generic fenced blocks
\* (keyword first, keyword after white space, no keyword) and mermaid tags
Segments ==
    {<<"no", " ", "code", " ", "here", Newline>>,
     <<Fence, "mermaid", Newline, "pie", Newline, Fence>>,
     <<Fence, "Mermaid", " ", "A-->B", Fence>>,
     <<Fence, "mermaid", Newline, Fence>>,
     BlockOf("graph"),
     BlockOf("stateDiagram-v2"),
     <<Fence, Newline, "sequenceDiagram", Newline, "A-->B", Fence>>,
     BlockOf("js"),
     <<"<mermaid", ">", "gantt", Newline, "</mermaid>">>,
     <<"<Mermaid", " ", "id", ">", "journey", "</Mermaid>">>}

\* the segments joined in order
RECURSIVE Joined(_)
Joined(segs) == IF segs = <<>> THEN <<>> ELSE Head(segs) \o Joined(Tail(segs))

\* given is a text of several segments, or one block for each spelling
ExtractorInit ==
    /\ ChatNotCalled
    /\ result = NotCalled
    /\ PaneMounted(FALSE)
    /\ NoValidation(Undefined)
    /\ \/ \E segs \in SeqUpTo(Segments, MaxSegments) :
             given = Str(Joined(SubSeq(segs, 1, Len(segs))))
       \/ \E head \in KeywordSpellings : given = Str(BlockOf(head))

\* extractMermaid(given)
Extract ==
    /\ result = NotCalled
    /\ result' = Value(extractMermaid(given.s))
    /\ UNCHANGED <<chatVars, given, other, paneVars, hookVars>>

ExtractorSpec == ExtractorInit /\ [][Extract]_vars

\* the longest output collection given to the detector
MaxDetected == 3

\* a tool_call entry with the flat layout
FlatEntry(id, name, args) ==
    Obj(TypeIs("tool_call") @@ Field("id", Str(id)) @@ Field("name", Str(name))
        @@ Field("arguments", Str(args)))

\* a function_call item with these properties besides its type
CallWith(props) == Obj(TypeIs("function_call") @@ props)

\* output items paired with the records the detector is expected to make of
\* them: top-level calls (call_id, id only, empty call_id), items without a
\* usable id or name, messages with nested calls, other items
DetectorItems ==
    {[item |-> CallItem(<<"call_1">>, <<"get_mermaid_docs">>, ArgsFlowchart),
      records |-> <<ToolCall(<<"call_1">>, <<"get_mermaid_docs">>, ArgsFlowchart)>>],
     [item |-> IdOnlyCallItem(<<"fc_2">>, <<"other_tool">>, ArgsMalformed),
      records |-> <<ToolCall(<<"fc_2">>, <<"other_tool">>, ArgsMalformed)>>],
     [item |-> CallWith(Field("call_id", Str(<<>>)) @@ Field("id", Str(<<"fc_3">>))
                        @@ Field("name", Str(<<"get_mermaid_docs">>))),
      records |-> <<ToolCall(<<"fc_3">>, <<"get_mermaid_docs">>, <<>>)>>],
     [item |-> CallWith(Field("call_id", Str(<<"call_9">>))
                        @@ Field("arguments", Str(ArgsFlowchart))),
      records |-> <<>>],
     [item |-> CallWith(Field("call_id", Str(<<"call_9">>)) @@ Field("name", Str(<<>>))),
      records |-> <<>>],
     [item |-> CallWith(Field("call_id", Str(<<"call_9">>)) @@ Field("name", Num("5"))),
      records |-> <<>>],
     [item |-> CallWith(Field("id", Num("5")) @@ Field("name", Str(<<"other_tool">>))),
      records |-> <<>>],
     [item |-> CallWith(Field("call_id", Str(<<>>)) @@ Field("id", Str(<<>>))
                        @@ Field("name", Str(<<"other_tool">>))),
      records |-> <<>>],
     [item |-> MessageItem(<<TextEntry(<<"thinking">>),
                             NestedEntry(<<"tc_1">>, <<"other_tool">>, ArgsNumber),
                             NestedEntry(<<>>, <<"get_mermaid_docs">>, ArgsFlowchart),
                             FlatEntry(<<"call_1">>, <<"get_mermaid_docs">>, ArgsFlowchart)>>),
      records |-> <<ToolCall(<<"tc_1">>, <<"other_tool">>, ArgsNumber),
                    ToolCall(<<"call_1">>, <<"get_mermaid_docs">>, ArgsFlowchart)>>],
     [item |-> MessageItem(<<FlatEntry(<<"tc_4">>, <<>>, ArgsFlowchart)>>),
      records |-> <<>>],
     [item |-> Obj(TypeIs("reasoning") @@ Field("id", Str(<<"rs_1">>))
                   @@ Field("name", Str(<<"get_mermaid_docs">>))),
      records |-> <<>>]}

\* given is a response with an output collection of these items and null,
\* or a response without one
DetectorInit ==
    /\ ChatNotCalled
    /\ result = NotCalled
    /\ PaneMounted(FALSE)
    /\ NoValidation(Undefined)
    /\ \/ \E output \in SeqUpTo({d.item : d \in DetectorItems} \cup {Null}, MaxDetected) :
             given = Obj(Field("output", Arr(SubSeq(output, 1, Len(output)))))
       \/ given \in {EmptyObj, Null, Obj(Field("output", Str(<<"none">>)))}

\* collectToolCalls(given)
Detect ==
    /\ result = NotCalled
    /\ result' = IF collectToolCallsThrows(given)
                     THEN Threw(ParseTypeError)
                     ELSE Value(Arr(collectToolCalls(given)))
    /\ UNCHANGED <<chatVars, given, other, paneVars, hookVars>>

DetectorSpec == DetectorInit /\ [][Detect]_vars

(***************************************************************************)
(* Two chat() invocations on one client.  messages, options, current, i,   *)
(* calls and continuationInput are parameters and locals of chat, so each  *)
(* invocation has its own; the client's fields are shared.  The            *)
(* invocation that runs next has its locals in the variables of chat, the  *)
(* other one is suspended at an await, or not yet called, with its locals  *)
(* in other.                                                               *)
(***************************************************************************)
\* the parameters and locals of the invocation in the variables of chat,
\* with the record of what it sent and received
Locals ==
    [messages |-> messages, options |-> options, pc |-> pc, current |-> current,
     i |-> i, calls |-> calls, tc |-> tc, continuationInput |-> continuationInput,
     outcome |-> outcome, requests |-> requests, replies |-> replies,
     handlerLog |-> handlerLog, parsed |-> parsed]

\* an invocation that has not been called yet
NotYetCalled(msgs, opts) ==
    [messages |-> msgs, options |-> opts, pc |-> "idle", current |-> Undefined,
     i |-> 0, calls |-> <<>>, tc |-> 0, continuationInput |-> <<>>,
     outcome |-> Pending, requests |-> <<>>, replies |-> <<>>,
     handlerLog |-> <<>>, parsed |-> <<>>]

\* what the service answers while two invocations run
TwoResponses == {StructuredAnswer, OneCall, MalformedArgs, NoAnchor}

\* and the status it fails with
TwoFailures == {[status |-> "500", text |-> <<"server", " ", "error">>]}

\* and what the handler returns
TwoDocs == {[syntaxDoc |-> <<"Use", " ", Quote, "graph", Quote, Newline>>,
             sourceUrl |-> <<"https://mermaid.js.org/flowchart">>]}

TwoInit ==
    /\ client = Constructor(ClientOptions)
    /\ messages = <<[role |-> "user", content |-> <<"first">>]>>
    /\ options \in [onGetMermaidDocs : BOOLEAN]
    /\ pc = "idle"
    /\ current = Undefined
    /\ i = 0
    /\ calls = <<>>
    /\ tc = 0
    /\ continuationInput = <<>>
    /\ outcome = Pending
    /\ requests = <<>>
    /\ replies = <<>>
    /\ handlerLog = <<>>
    /\ parsed = <<>>
    /\ given = Undefined
    /\ result = NotCalled
    /\ other = NotYetCalled(<<[role |-> "user", content |-> <<"second">>]>>,
                            [onGetMermaidDocs |-> TRUE])
    /\ PaneMounted(FALSE)
    /\ NoValidation(Undefined)

\* a suspension point where a field of the client would hold current: the
\* other invocation goes on with the response this one received last
Switch_sharedCurrent ==
    /\ other # NoInvocation
    /\ other' = Locals
    /\ messages' = other.messages
    /\ options' = other.options
    /\ pc' = other.pc
    /\ i' = other.i
    /\ calls' = other.calls
    /\ tc' = other.tc
    /\ continuationInput' = other.continuationInput
    /\ outcome' = other.outcome
    /\ requests' = other.requests
    /\ replies' = other.replies
    /\ handlerLog' = other.handlerLog
    /\ parsed' = other.parsed
    /\ UNCHANGED <<client, current, given, result, paneVars, hookVars>>

\* the event loop runs the other invocation next: the running one stays
\* suspended at its await with its locals, the client is the same
Switch ==
    /\ other # NoInvocation
    /\ other' = Locals
    /\ messages' = other.messages
    /\ options' = other.options
    /\ pc' = other.pc
    /\ current' = other.current
    /\ i' = other.i
    /\ calls' = other.calls
    /\ tc' = other.tc
    /\ continuationInput' = other.continuationInput
    /\ outcome' = other.outcome
    /\ requests' = other.requests
    /\ replies' = other.replies
    /\ handlerLog' = other.handlerLog
    /\ parsed' = other.parsed
    /\ UNCHANGED <<client, given, result, paneVars, hookVars>>

TwoNext ==
    \/ Chat
    \/ \E json \in TwoResponses : PostOk(json)
    \/ \E failure \in TwoFailures : PostFail(failure)
    \/ \E docs \in TwoDocs : HandlerResolve(docs)
    \/ HandlerReject
    \/ Switch

TwoSpec == TwoInit /\ [][TwoNext]_vars

(***************************************************************************)
(* AIChatPane: the state of the component and its send.  React renders     *)
(* again after every event handler and after every state update made       *)
(* once an await has returned, so the handlers of an event see the state   *)
(* the step before left.                                                   *)
(***************************************************************************)
\* the largest number of calls of send
MaxSends == 2

\* what the user types into the text field
PaneTexts == {<<>>, <<" ", Newline>>, <<"draw">>, <<" ", "explain", " ">>}

\* String(Date.now()) when send is called
PaneClock == {"1000", "1001"}

\* what onSend resolves with: { text, mermaid? }, also without a text, and
\* no object at all
SendResults ==
    { Obj(Field("text", Str(<<"Here", " ", "it", " ", "is">>))
          @@ Field("mermaid", Str(<<"graph", " ", "TD">>))),
      Obj(Field("text", Str(<<"No", " ", "diagram">>))),
      Obj(Field("mermaid", Str(<<"pie">>))),
      Undefined }

\* an Error object with this message
ErrorObject(message) == [t |-> "error", message |-> message]

\* what onSend rejects with: an Error, a string, nothing
SendErrors == {ErrorObject(<<"OpenAI ", "500", ": ">>), Str(<<"timeout">>), Undefined}

\* the sign the text of a failure message starts with
WarningSign == "U+26A0 U+FE0F"

ChatMessage(id, role, text, snippet) ==
    [id |-> id, role |-> role, text |-> text, snippet |-> snippet]

\* line 33: userMsg
UserMessage(id, prompt) == ChatMessage(id, "user", prompt, Undefined)

\* lines 38-52: aiMsg when onSend is missing
DemoMessage(id) ==
    ChatMessage(id \o <<"-ai">>, "assistant",
                <<"Demo: connect Azure OpenAI to get real answers.">>, Undefined)

\* lines 58-59: the message of the catch block for the thrown value err
FailureMessage(id, err) ==
    ChatMessage(id \o <<"-err">>, "assistant",
                <<WarningSign, " ">> \o
                    (IF err.t = "error" THEN err.message
                     ELSE IF IsNullish(err) THEN <<"Unknown error">>
                     ELSE JsString(err)),
                Undefined)

\* lines 43-52: aiMsg for what onSend resolved with; reading a property of
\* a value that is no object throws, which the catch block reports
ReplyMessage(id, res) ==
    IF IsNullish(res)
        THEN FailureMessage(id, ErrorObject(<<"Cannot read properties of undefined">>))
    ELSE ChatMessage(id \o <<"-ai">>, "assistant",
                     IF IsNullish(Get(res, "text")) THEN <<>> ELSE Get(res, "text").s,
                     Get(res, "mermaid"))

\* the calls of send among the entries of the log
SendCalls == {n \in 1..Len(sendLog) : sendLog[n] \in {"ignored", "user"}}

PaneInit ==
    /\ ChatNotCalled
    /\ given = Undefined
    /\ result = NotCalled
    /\ NoValidation(Undefined)
    /\ \E supplied \in BOOLEAN : PaneMounted(supplied)

\* line 92: onChange of the text field, which is disabled while busy
Type(v) ==
    /\ ~busy
    /\ paneInput' = v
    /\ UNCHANGED <<onSend, paneMessages, busy, awaited, sendLog>>
    /\ UNCHANGED <<chatVars, given, result, other, hookVars>>

\* line 98: the Clear button, which is disabled while busy
Clear ==
    /\ ~busy
    /\ paneMessages # <<>>
    /\ paneMessages' = <<>>
    /\ UNCHANGED <<onSend, paneInput, busy, awaited, sendLog>>
    /\ UNCHANGED <<chatVars, given, result, other, hookVars>>

\* send() called at time now, up to its await or, without onSend, to its end
Send(now) ==
    /\ Cardinality(SendCalls) < MaxSends
    /\ IF Trim(paneInput) = <<>> \/ busy
           THEN /\ sendLog' = Append(sendLog, "ignored")
                /\ UNCHANGED <<paneMessages, paneInput, busy, awaited>>
       ELSE IF onSend
           THEN /\ busy' = TRUE
                /\ paneMessages' = Append(paneMessages, UserMessage(<<now>>, Trim(paneInput)))
                /\ paneInput' = <<>>
                /\ awaited' = Append(awaited, [id |-> <<now>>, prompt |-> Trim(paneInput)])
                /\ sendLog' = Append(sendLog, "user")
       ELSE /\ busy' = FALSE
            /\ paneMessages' = paneMessages \o
                   <<UserMessage(<<now>>, Trim(paneInput)), DemoMessage(<<now>>)>>
            /\ paneInput' = <<>>
            /\ sendLog' = sendLog \o <<"user", "assistant">>
            /\ UNCHANGED awaited
    /\ UNCHANGED onSend
    /\ UNCHANGED <<chatVars, given, result, other, hookVars>>

\* onSend resolves with res: lines 43-53 and the finally block
SendResolve(res) ==
    /\ awaited # <<>>
    /\ paneMessages' = Append(paneMessages, ReplyMessage(Head(awaited).id, res))
    /\ busy' = FALSE
    /\ awaited' = Tail(awaited)
    /\ sendLog' = Append(sendLog, "assistant")
    /\ UNCHANGED <<onSend, paneInput>>
    /\ UNCHANGED <<chatVars, given, result, other, hookVars>>

\* a failure after which busy is not reset
SendReject_staysBusy(err) ==
    /\ awaited # <<>>
    /\ paneMessages' = Append(paneMessages, FailureMessage(Head(awaited).id, err))
    /\ awaited' = Tail(awaited)
    /\ sendLog' = Append(sendLog, "assistant")
    /\ UNCHANGED <<onSend, paneInput, busy>>
    /\ UNCHANGED <<chatVars, given, result, other, hookVars>>

\* onSend rejects with err: the catch block and the finally block
SendReject(err) ==
    /\ awaited # <<>>
    /\ paneMessages' = Append(paneMessages, FailureMessage(Head(awaited).id, err))
    /\ busy' = FALSE
    /\ awaited' = Tail(awaited)
    /\ sendLog' = Append(sendLog, "assistant")
    /\ UNCHANGED <<onSend, paneInput>>
    /\ UNCHANGED <<chatVars, given, result, other, hookVars>>

PaneNext ==
    \/ \E v \in PaneTexts : Type(v)
    \/ Clear
    \/ \E now \in PaneClock : Send(now)
    \/ \E res \in SendResults : SendResolve(res)
    \/ \E err \in SendErrors : SendReject(err)

PaneSpec == PaneInit /\ [][PaneNext]_vars

(***************************************************************************)
(* MermaidLanguage.validate: each call waits for the import of mermaid and *)
(* for mermaid.parse; between the two it has replaced the global           *)
(* mermaid.parseError by a function of its own.  Several calls, from       *)
(* several editors or from several debounced runs, may be under way.       *)
(***************************************************************************)
\* the largest number of validate calls
MaxValidations == 2

\* model.getLineMaxColumn(endLine)
LineMaxColumn == 10

\* the texts that are validated
ValidatedTexts == {<<"graph", " ", "TD">>, <<"graf">>}

\* a number as a JavaScript value
JsNumber(n) == [t |-> "int", n |-> n]

\* v ?? d for a number v
OrElse(v, d) == IF IsNullish(v) THEN d ELSE v.n

\* the function a hook is: the application's own, or the one that the
\* validate call k made at line 78
HookOf(k) == [t |-> "function", of |-> k]

\* what mermaid.parseError is before any validation: nothing, or a function
\* the application has set
OriginalHooks == {Undefined, HookOf(0)}

\* the hash mermaid hands to the hook: without loc, with a full loc, with a
\* loc that has only the first line
Hashes ==
    { [t |-> "hash", loc |-> Undefined],
      [t |-> "hash",
       loc |-> [t |-> "loc", first_line |-> JsNumber(2), last_line |-> JsNumber(3),
                first_column |-> JsNumber(0), last_column |-> JsNumber(4)]],
      [t |-> "hash",
       loc |-> [t |-> "loc", first_line |-> JsNumber(2), last_line |-> Undefined,
                first_column |-> Undefined, last_column |-> Undefined]] }

\* what mermaid.parse rejects with
ParseErrors == {ErrorObject(<<"Parse error on line 2">>), Undefined}

\* lines 83-96: the marker for the error e and the hash the hook stored
MarkerFor(e, lastHash) ==
    LET loc == IF IsNullish(lastHash) THEN Undefined ELSE lastHash.loc
        at(f) == IF IsNullish(loc) THEN Undefined ELSE loc[f]
        startLine == OrElse(at("first_line"), 1)
        endLine == OrElse(at("last_line"), startLine)
    IN [startLineNumber |-> startLine,
        startColumn |-> OrElse(at("first_column"), 0) + 1,
        endLineNumber |-> endLine,
        endColumn |-> OrElse(at("last_column"), LineMaxColumn) + 1,
        message |-> IF IsNullish(e) THEN <<"Invalid Mermaid syntax">> ELSE e.message]

\* the hook hook is called with hash: the function of validate call k stores
\* the hash in that call's lastHash
HookCalled(hook, hash, vs) ==
    IF hook.t = "function" /\ hook.of \in 1..Len(vs)
        THEN [vs EXCEPT ![hook.of].lastHash = hash]
        ELSE vs

HookInit ==
    /\ ChatNotCalled
    /\ given = Undefined
    /\ result = NotCalled
    /\ PaneMounted(FALSE)
    /\ \E original \in OriginalHooks : NoValidation(original)

\* validate(text, monaco, model) up to the await of line 74
Validate(text) ==
    /\ Len(validations) < MaxValidations
    /\ validations' = Append(validations,
           [pc |-> "import", text |-> text, prev |-> Undefined, lastHash |-> Null,
            markers |-> <<>>, hookAtCall |-> parseError])
    /\ UNCHANGED parseError
    /\ UNCHANGED <<chatVars, given, result, other, paneVars>>

\* the import has returned: lines 75-80 up to the await of mermaid.parse
Imported(k) ==
    /\ k \in 1..Len(validations)
    /\ validations[k].pc = "import"
    /\ validations' = [validations EXCEPT ![k].pc = "parse", ![k].prev = parseError]
    /\ parseError' = HookOf(k)
    /\ UNCHANGED <<chatVars, given, result, other, paneVars>>

\* mermaid.parse resolves: return [] and the finally block
ParseResolves(k) ==
    /\ k \in 1..Len(validations)
    /\ validations[k].pc = "parse"
    /\ validations' = [validations EXCEPT ![k].pc = "done"]
    /\ parseError' = validations[k].prev
    /\ UNCHANGED <<chatVars, given, result, other, paneVars>>

\* mermaid.parse rejects with e, after it has called the hook that is set
\* at that time with hash when told is true: the catch block and the
\* finally block
ParseRejects(k, e, told, hash) ==
    /\ k \in 1..Len(validations)
    /\ validations[k].pc = "parse"
    /\ LET vs == IF told THEN HookCalled(parseError, hash, validations)
                 ELSE validations
       IN validations' = [vs EXCEPT ![k].pc = "done",
                                    ![k].markers = <<MarkerFor(e, vs[k].lastHash)>>]
    /\ parseError' = validations[k].prev
    /\ UNCHANGED <<chatVars, given, result, other, paneVars>>

HookNext ==
    \/ \E text \in ValidatedTexts : Validate(text)
    \/ \E k \in 1..MaxValidations : Imported(k)
    \/ \E k \in 1..MaxValidations : ParseResolves(k)
    \/ \E k \in 1..MaxValidations, e \in ParseErrors, told \in BOOLEAN, hash \in Hashes :
          ParseRejects(k, e, told, hash)

HookSpec == HookInit /\ [][HookNext]_vars

(***************************************************************************)
(* Properties of chat()                                                    *)
(***************************************************************************)
\* a reply has an anchor when its top-level id, or else its nested
\* response.id, is a non-empty string
HasAnchor(json) ==
    \/ IsString(Get(json, "id")) /\ Get(json, "id").s # <<>>
    \/ /\ IsString(Get(Get(json, "response"), "id"))
       /\ Get(Get(json, "response"), "id").s # <<>>

\* C1: a chat invocation sends at most 3 continuation requests (4 POSTs);
\* when all four replies carried pending tool calls and an anchor and a
\* handler is supplied, exactly 3 continuation requests were sent, no
\* handler call was made for the calls of the fourth reply, and chat
\* resolved with the parse of the fourth reply.
C1_RoundBound ==
    /\ Len(requests) <= 4
    /\ ( /\ options.onGetMermaidDocs
         /\ Len(replies) = 4
         /\ \A j \in 1..4 :
               /\ replies[j].ok
               /\ collectToolCalls(replies[j].json) # <<>>
               /\ HasAnchor(replies[j].json) )
       => /\ Len(requests) = 4
          /\ \A n \in 1..Len(handlerLog) : handlerLog[n].round < 3
          /\ pc = "done"
          /\ outcome = Fulfilled(parseResponseV2(replies[4].json))

C1_Witness ==
    /\ options.onGetMermaidDocs
    /\ Len(replies) = 4
    /\ replies[4].ok
    /\ collectToolCalls(replies[4].json) # <<>>
    /\ HasAnchor(replies[4].json)
    /\ outcome.state = "fulfilled"

C3_Settled ==
    /\ pc = "done" <=> outcome.state # "pending"
    /\ Len(parsed) <= 1
    /\ \A n \in 1..Len(parsed) :
          /\ pc = "done"
          /\ replies[Len(replies)].ok
          /\ parsed[n] = replies[Len(replies)].json
    /\ outcome.state = "fulfilled" =>
          /\ Len(parsed) = 1
          /\ outcome.value = parseResponseV2(replies[Len(replies)].json)
          /\ outcome.value.raw = replies[Len(replies)].json

C3_OneResult == []C3_Settled /\ [][outcome.state # "pending" => outcome' = outcome]_vars

C3_Witness ==
    /\ outcome.state = "fulfilled"
    /\ Len(replies) = 3
    /\ replies[1].json # replies[3].json
    /\ replies[2].json # replies[3].json
    /\ parseResponseV2(replies[1].json).text # outcome.value.text

\* C4: without a handler exactly one POST is made, the handler is never
\* called and chat returns the parse of the first reply, tool calls or not;
\* with a handler, a reply that yields no tool-call record is followed by no
\* handler call and no request, and is parsed as the final one.
C4_StopsAtOnce ==
    /\ ~options.onGetMermaidDocs =>
          /\ Len(requests) <= 1
          /\ handlerLog = <<>>
          /\ pc = "done" => Len(requests) = 1
          /\ Len(replies) = 1 /\ replies[1].ok =>
                outcome = Fulfilled(parseResponseV2(replies[1].json))
    /\ options.onGetMermaidDocs =>
          \A j \in 1..Len(replies) :
              replies[j].ok /\ collectToolCalls(replies[j].json) = <<>> =>
                  /\ Len(requests) = j
                  /\ Len(replies) = j
                  /\ \A n \in 1..Len(handlerLog) : handlerLog[n].round < j - 1
                  /\ outcome = Fulfilled(parseResponseV2(replies[j].json))

C4_Witness ==
    /\ ~options.onGetMermaidDocs
    /\ Len(replies) = 1
    /\ replies[1].ok
    /\ Len(collectToolCalls(replies[1].json)) = 2
    /\ HasAnchor(replies[1].json)
    /\ outcome.state = "fulfilled"

\* C5: the input of the continuation request of a round has one
\* function_call_output item per detected record, in detection order; the
\* item's call_id is the record's id and its output is the JSON text of the
\* { syntaxDoc, sourceUrl } the handler returned when called, once, with the
\* kind read from that record's arguments.
C5_OneItemPerCall ==
    \A q \in 2..Len(requests) :
        LET cs == collectToolCalls(replies[q - 1].json)
            input == requests[q].body.input.a
        IN /\ Len(input) = Len(cs)
           /\ \A k \in 1..Len(cs) :
                 LET entries == {n \in 1..Len(handlerLog) :
                                    /\ handlerLog[n].round = q - 2
                                    /\ handlerLog[n].index = k}
                 IN /\ input[k].type = "function_call_output"
                    /\ input[k].call_id = cs[k].id
                    /\ Cardinality(entries) = 1
                    /\ \A n \in entries :
                          LET decoded == JSONParse(input[k].output) IN
                          /\ handlerLog[n].state = "resolved"
                          /\ handlerLog[n].kind = KindOf(safeParseJSON(cs[k].arguments))
                          /\ decoded.ok
                          /\ decoded.v =
                                Obj(Field("syntaxDoc", Str(handlerLog[n].syntaxDoc))
                                    @@ Field("sourceUrl", Str(handlerLog[n].sourceUrl)))
                          /\ \A m \in entries : k > 1 =>
                                \E b \in 1..(m - 1) :
                                    /\ handlerLog[b].round = q - 2
                                    /\ handlerLog[b].index = k - 1

C5_Witness ==
    /\ Len(requests) = 3
    /\ Len(requests[3].body.input.a) = 2
    /\ requests[3].body.input.a[1].call_id # requests[3].body.input.a[2].call_id
    /\ requests[3].body.input.a[1].output # requests[3].body.input.a[2].output
    /\ \E n \in 1..Len(requests[3].body.input.a[1].output) :
          requests[3].body.input.a[1].output[n] = Backslash

\* C6: a reply with a status that is not ok is the last event of the
\* invocation: chat rejects with an error whose message holds the status and
\* the body text, no request is made after it and no handler call is made
\* or left pending after it.
C6_TransportFailure ==
    \A j \in 1..Len(replies) :
        ~replies[j].ok =>
            /\ j = Len(replies)
            /\ Len(requests) = j
            /\ pc = "done"
            /\ outcome.state = "rejected"
            /\ outcome.site = "postCreate"
            /\ outcome.reason.name = "Error"
            /\ outcome.reason.message = <<"OpenAI ", replies[j].status, ": ">> \o replies[j].text
            /\ parsed = <<>>
            /\ \A n \in 1..Len(handlerLog) :
                  handlerLog[n].round < j - 1 /\ handlerLog[n].state = "resolved"

C6_Witness ==
    /\ Len(replies) = 3
    /\ ~replies[3].ok
    /\ replies[3].text # <<>>
    /\ Len(handlerLog) >= 2
    /\ outcome.state = "rejected"

\* C7 as claimed: chat rejects only for a transport failure or a missing
\* continuation anchor.
C7_OnlyTransportOrAnchor ==
    outcome.state = "rejected" => outcome.site \in {"postCreate", "getResponseId"}

\* C8: a detected call whose arguments string is not JSON is handled like
\* any other: no error comes from it, the handler is called once for it with
\* the empty kind as soon as the call before it has returned, and once the
\* handler has returned the round's input holds its function_call_output item.
C8_MalformedArguments ==
    \A j \in 1..Len(replies) :
        (options.onGetMermaidDocs /\ j <= 3 /\ replies[j].ok) =>
            LET cs == collectToolCalls(replies[j].json) IN
            \A k \in 1..Len(cs) :
                ~JSONParse(cs[k].arguments).ok =>
                    LET At(x) == {n \in 1..Len(handlerLog) :
                                     /\ handlerLog[n].round = j - 1
                                     /\ handlerLog[n].index = x}
                        items == IF Len(requests) > j
                                     THEN requests[j + 1].body.input.a
                                     ELSE continuationInput
                    IN /\ Cardinality(At(k)) <= 1
                       /\ \A n \in At(k) : handlerLog[n].kind = <<>>
                       /\ ( \/ k = 1
                            \/ \E n \in At(k - 1) : handlerLog[n].state = "resolved" )
                          => At(k) # {}
                       /\ \A n \in At(k) : handlerLog[n].state = "resolved" =>
                             /\ Len(items) >= k
                             /\ items[k].type = "function_call_output"
                             /\ items[k].call_id = cs[k].id
                       /\ ~( /\ outcome.state = "rejected"
                             /\ outcome.site = "args.kind"
                             /\ j = Len(replies)
                             /\ tc = k )

C8_Witness ==
    /\ Len(requests) = 2
    /\ Len(collectToolCalls(replies[1].json)) = 2
    /\ ~JSONParse(collectToolCalls(replies[1].json)[2].arguments).ok
    /\ handlerLog[2].kind = <<>>
    /\ handlerLog[1].kind # <<>>
    /\ Len(requests[2].body.input.a) = 2

\* C9: the first request's input is the caller's messages in their order and
\* it has no previous_response_id; every later request has a non-empty
\* previous_response_id and an input made only of function_call_output
\* items, which have no role and are not function calls.
C9_RequestInputs ==
    /\ Len(requests) >= 1 =>
          /\ requests[1].body.input = Arr(messages)
          /\ requests[1].body.previous_response_id = Undefined
    /\ \A q \in 2..Len(requests) :
          /\ IsString(requests[q].body.previous_response_id)
          /\ requests[q].body.previous_response_id.s # <<>>
          /\ IsArray(requests[q].body.input)
          /\ \A k \in 1..Len(requests[q].body.input.a) :
                /\ DOMAIN requests[q].body.input.a[k] = {"type", "call_id", "output"}
                /\ requests[q].body.input.a[k].type = "function_call_output"

C9_Witness ==
    /\ Len(requests) = 3
    /\ Len(messages) = 3
    /\ requests[1].body.input.a[3].role = "assistant"
    /\ Len(requests[3].body.input.a) = 2

\* C10: a request is made only after the reply to the one before it, so a
\* round sends one continuation request; its previous_response_id is the
\* anchor of the reply received just before it: the top-level id when that
\* is a non-empty string, else the nested response.id.
C10_AnchorOfPriorReply ==
    /\ Len(replies) <= Len(requests)
    /\ Len(requests) <= Len(replies) + 1
    /\ pc = "post" <=> Len(requests) = Len(replies) + 1
    /\ \A q \in 2..Len(requests) :
          LET prior == replies[q - 1].json IN
          /\ replies[q - 1].ok
          /\ requests[q].body.previous_response_id =
                IF IsString(Get(prior, "id")) /\ Get(prior, "id").s # <<>>
                    THEN Get(prior, "id")
                    ELSE Get(Get(prior, "response"), "id")

C10_Witness ==
    /\ Len(requests) = 4
    /\ requests[2].body.previous_response_id = Str(<<"resp_m">>)
    /\ requests[3].body.previous_response_id = Str(<<"resp_a">>)
    /\ Get(Get(replies[2].json, "response"), "id") = Str(<<"resp_n">>)
    /\ requests[4].body.previous_response_id = Str(<<"resp_n">>)

\* C20: when the continuation anchor is missing the error is surfaced at
\* once: for a reply with pending tool calls and no anchor, received while a
\* continuation is still allowed, the handler is not called for any of that
\* round's calls before chat rejects.
C20_NoHandlerCallWithoutAnchor ==
    \A j \in 1..Len(replies) :
        ( /\ options.onGetMermaidDocs
          /\ j <= 3
          /\ replies[j].ok
          /\ collectToolCalls(replies[j].json) # <<>>
          /\ ~HasAnchor(replies[j].json) )
        => \A n \in 1..Len(handlerLog) : handlerLog[n].round # j - 1

\* json has no message item and no non-empty aggregated output_text: no
\* structured item, no aggregated text and no plain text chunk; its output
\* items are objects
NothingUsable(json) ==
    /\ json.t = "obj"
    /\ ~(IsString(Get(json, "output_text")) /\ Get(json, "output_text").s # <<>>)
    /\ \/ ~IsArray(Get(json, "output"))
       \/ \A n \in 1..Len(Get(json, "output").a) :
             Get(Get(json, "output").a[n], "type") # Str(<<"message">>)

\* C14: when the final response, received with an ok status, has no
\* structured item, no aggregated output_text and no text chunk, chat is
\* fulfilled with the empty text and no diagram; after a reply with a status
\* that is not ok chat is rejected, so the two can be told apart.
C14_NothingUsable ==
    /\ (pc = "done" /\ parsed # <<>> /\ NothingUsable(parsed[Len(parsed)])) =>
           outcome = Fulfilled(AssistantResult(<<>>, Undefined, parsed[Len(parsed)]))
    /\ (replies # <<>> /\ ~replies[Len(replies)].ok) => outcome.state = "rejected"

\* the reply to a continuation had nothing usable and chat was fulfilled
C14_Witness ==
    /\ pc = "done"
    /\ Len(replies) >= 2
    /\ parsed # <<>>
    /\ parsed[Len(parsed)] = replies[Len(replies)].json
    /\ NothingUsable(parsed[Len(parsed)])
    /\ outcome.state = "fulfilled"
    /\ outcome.value.text = <<>>

(***************************************************************************)
(* Properties of parseResponseV2                                           *)
(***************************************************************************)
\* given is a response whose output collection is one message item
OneMessageGiven ==
    /\ given.t = "obj"
    /\ IsArray(Get(given, "output"))
    /\ Len(Get(given, "output").a) = 1
    /\ Get(given, "output").a[1].t = "obj"
    /\ Get(Get(given, "output").a[1], "type") = Str(<<"message">>)
    /\ IsArray(Get(Get(given, "output").a[1], "content"))

\* the content entries of that message item
GivenContent == Get(Get(given, "output").a[1], "content").a

\* given carries a non-empty aggregated output_text
AggregateGiven ==
    /\ given.t = "obj"
    /\ IsString(Get(given, "output_text"))
    /\ Get(given, "output_text").s # <<>>

\* entries that carry neither a structured payload nor a text chunk that is
\* JSON: the scan has nothing to return from them
PassedOver ==
    {TextEntry(<<"plain", " ">>), TextEntry(BrokenJsonChunk), TextEntry(TailJsonChunk),
     TextEntry(FencedDiagramChunk), JsonEntry(Null), Obj(TypeIs("refusal")),
     Obj(TypeIs("output_text") @@ Field("text", Num("5")))}

\* the diagram a payload with diagram string D stands for
DiagramOf(D) == IF D = BlankDiagram THEN Undefined ELSE Str(CleanDiagram)

\* entry n of the content is the first one the scan can return from, and it
\* is the structured payload with text T and diagram D
FirstStructured(n, T, D) ==
    /\ GivenContent[n] = JsonEntry(Payload(T, D))
    /\ \A m \in 1..(n - 1) : GivenContent[m] \in PassedOver

\* C11: when a response carries a structured JSON entry inside a message and
\* also a non-empty aggregated output_text with other content, the result's
\* text and diagram are those of the structured entry, not of output_text.
C11_StructuredWins ==
    (result.done /\ OneMessageGiven /\ AggregateGiven) =>
        \A n \in 1..Len(GivenContent) :
            \A T \in PayloadTexts, D \in PayloadDiagrams :
                FirstStructured(n, T, D) =>
                    result = Value(AssistantResult(T, DiagramOf(D), given))

\* a structured entry met after a plain chunk, beside a JSON output_text
C11_Witness ==
    /\ result.done
    /\ given = ResponseOf(Arr(<<MessageItem(<<
                   TextEntry(<<"plain", " ">>),
                   JsonEntry(Payload(<<"Here", " ", "it", " ", "is">>, PaddedDiagram))>>)>>),
                 Str(JsonAggregate))
    /\ result.value.text = <<"Here", " ", "it", " ", "is">>

\* the object { text, mermaid } that the coercion returned, coerced again
CoercedAgain(r) ==
    coerceV2(Obj(Field("text", Str(r.text)) @@ Field("mermaid", r.mermaid)))

\* C12 as stated: for every text T and non-empty diagram string D, a
\* structured payload with text T and diagram D is parsed to text exactly T
\* and diagram exactly D, and coercing that output again changes nothing.
C12_Original ==
    (result.done /\ OneMessageGiven) =>
        \A n \in 1..Len(GivenContent) :
            \A T \in PayloadTexts, D \in PayloadDiagrams :
                FirstStructured(n, T, D) =>
                    /\ ~result.threw
                    /\ result.value.text = T
                    /\ result.value.mermaid = Str(D)
                    /\ CoercedAgain(result.value) =
                           [text |-> result.value.text,
                            mermaid |-> result.value.mermaid]

\* C12, amended: the text is exactly T; the diagram is D without the white
\* space around it, so exactly D when D has none, and absent when D is white
\* space only; coercing that output again changes nothing.
C12_RoundTrip ==
    (result.done /\ OneMessageGiven) =>
        \A n \in 1..Len(GivenContent) :
            \A T \in PayloadTexts, D \in PayloadDiagrams :
                FirstStructured(n, T, D) =>
                    /\ ~result.threw
                    /\ result.value.text = T
                    /\ result.value.mermaid = DiagramOf(D)
                    /\ D = CleanDiagram => result.value.mermaid = Str(D)
                    /\ CoercedAgain(result.value) =
                           [text |-> T, mermaid |-> DiagramOf(D)]

\* a payload whose diagram is padded with white space has been parsed
C12_Witness ==
    /\ result.done
    /\ OneMessageGiven
    /\ Len(GivenContent) = 1
    /\ GivenContent[1] = JsonEntry(Payload(<<>>, PaddedDiagram))
    /\ result.value.mermaid = Str(CleanDiagram)

\* C13: the parser is total: for every response value, also one whose output
\* collection is missing or no array, whose items or entries are null or no
\* objects, or whose fields have a wrong type, it returns an AssistantResult
\* with a text and never throws.
C13_Total ==
    result.done => (~result.threw /\ "text" \in DOMAIN result.value)

\* structured payloads that carry neither a text nor a diagram
EmptyPayloads == {EmptyObj, Payload(<<>>, BlankDiagram)}

\* what the aggregated texts stand for
OfAggregate(agg) ==
    CASE agg = PlainAggregate -> [text |-> PlainAggregate, mermaid |-> Undefined]
      [] agg = JsonAggregate -> [text |-> <<"Agg">>, mermaid |-> Undefined]
      [] agg = FencedAggregate ->
            [text |-> FencedAggregate, mermaid |-> Str(<<"flowchart", " ", "LR">>)]

\* C17: the scan returns from a structured entry only when the coerced text
\* is non-empty or a diagram was found: a structured entry that carries
\* neither does not keep a non-empty aggregated output_text from being the
\* result.
C17_EmptyStructuredSkipped ==
    (/\ result.done
     /\ OneMessageGiven
     /\ AggregateGiven
     /\ \A n \in 1..Len(GivenContent) :
           GivenContent[n] \in PassedOver \cup {JsonEntry(j) : j \in EmptyPayloads}) =>
        /\ ~result.threw
        /\ result.value.text = OfAggregate(Get(given, "output_text").s).text
        /\ result.value.mermaid = OfAggregate(Get(given, "output_text").s).mermaid

\* the output collection the loops walk
GivenOutput ==
    IF given.t = "obj" /\ IsArray(Get(given, "output"))
        THEN Get(given, "output").a ELSE <<>>

\* the content entries of an output item that the loops visit
EntriesOf(item) ==
    IF Get(item, "type") = Str(<<"message">>) /\ IsArray(Get(item, "content"))
        THEN Get(item, "content").a ELSE <<>>

\* the entries of all message items, in encounter order
RECURSIVE AllEntries(_)
AllEntries(output) ==
    IF output = <<>> THEN <<>> ELSE EntriesOf(Head(output)) \o AllEntries(Tail(output))

\* the plain text chunks among the entries, concatenated in order
RECURSIVE ChunkText(_)
ChunkText(entries) ==
    IF entries = <<>> THEN <<>>
    ELSE (IF Head(entries) \in {TextEntry(t) : t \in ChunkTexts}
              THEN Get(Head(entries), "text").s ELSE <<>>)
         \o ChunkText(Tail(entries))

\* no item is null and the scan has nothing to return from any entry
NothingStructured ==
    /\ given.t = "obj"
    /\ \A n \in 1..Len(GivenOutput) : GivenOutput[n] # Null
    /\ \A n \in 1..Len(AllEntries(GivenOutput)) :
          AllEntries(GivenOutput)[n] \in PassedOver

\* the text the later stages work on: the aggregated output_text when it is
\* a non-empty string, else the stitched chunks
TextUsed ==
    IF AggregateGiven THEN Get(given, "output_text").s
    ELSE ChunkText(AllEntries(GivenOutput))

\* C18: in the aggregated stage and in the stitched stage the JSON coercion
\* of the text comes first; only when it fails is the text itself the
\* result's text, with the diagram the extractor finds in that same text.
\* The stitched text is the concatenation of all text chunks of all message
\* items in encounter order and is used only without a non-empty output_text.
C18_TextStages ==
    (result.done /\ NothingStructured) =>
        /\ ~result.threw
        /\ result.value =
               IF safeParseV2(TextUsed).ok
                   THEN AssistantResult(safeParseV2(TextUsed).text,
                                        safeParseV2(TextUsed).mermaid, given)
                   ELSE AssistantResult(TextUsed, extractMermaid(TextUsed), given)
        /\ TextUsed = JsonAggregate => result.value.text = <<"Agg">>
        /\ TextUsed = BrokenJsonChunk \o TailJsonChunk =>
               result.value.text = <<"Stitched">>
        /\ TextUsed = <<"plain", " ">> \o FencedDiagramChunk =>
               /\ result.value.text = TextUsed
               /\ result.value.mermaid = Str(<<"pie">>)

\* two chunks that only together are JSON have been stitched and coerced
C18_Witness ==
    /\ result.done
    /\ NothingStructured
    /\ ~AggregateGiven
    /\ TextUsed = BrokenJsonChunk \o TailJsonChunk
    /\ Len(GivenOutput) = 1
    /\ result.value.text = <<"Stitched">>

(***************************************************************************)
(* Properties of extractMermaid                                            *)
(***************************************************************************)
\* the positions of the fences of s; in the given texts they pair up, the
\* odd ones opening a block and the even ones closing it
FencesOf(s) == {q \in 1..Len(s) : s[q] = Fence}

NthFence(s, k) ==
    CHOOSE q \in FencesOf(s) : Cardinality({r \in FencesOf(s) : r <= q}) = k

Blocks(s) == 1..(Cardinality(FencesOf(s)) \div 2)

\* what stands between the fences of block k
BlockBody(s, k) == SubSeq(s, NthFence(s, 2 * k - 1) + 1, NthFence(s, 2 * k) - 1)

\* block k is labeled mermaid; what follows its label, trimmed
HasLabel(s, k) ==
    BlockBody(s, k) # <<>> /\ BlockBody(s, k)[1] \in {"mermaid", "Mermaid"}

LabeledContent(s, k) == Trim(Tail(BlockBody(s, k)))

\* block k is labeled mermaid and has content
IsLabeled(s, k) == HasLabel(s, k) /\ LabeledContent(s, k) # <<>>

\* the first token of the trimmed block k is a diagram kind in some spelling
IsKeywordBlock(s, k) ==
    /\ Trim(BlockBody(s, k)) # <<>>
    /\ Trim(BlockBody(s, k))[1] \in KeywordSpellings
    /\ Len(Trim(BlockBody(s, k))) = 1 \/ IsWhitespace(Trim(BlockBody(s, k))[2])

HasTag(s) == \E q \in 1..Len(s) : s[q] \in {"<mermaid", "<Mermaid"}

\* C15: the extractor's checks have a fixed priority wherever the matches
\* stand in the text: a block labeled mermaid that has content wins over
\* every generic block and every mermaid tag; a generic block that starts
\* with a recognized keyword wins over every mermaid tag; a text without
\* fenced block and without tag, and the empty text, give undefined.
C15_Priority ==
    result.done =>
        /\ (\E k \in Blocks(given.s) : IsLabeled(given.s, k)) =>
               \E k \in Blocks(given.s) :
                   /\ IsLabeled(given.s, k)
                   /\ result.value = Str(LabeledContent(given.s, k))
        /\ (/\ \A k \in Blocks(given.s) : ~IsLabeled(given.s, k)
            /\ \E k \in Blocks(given.s) : IsKeywordBlock(given.s, k)) =>
               \E k \in Blocks(given.s) :
                   /\ IsKeywordBlock(given.s, k)
                   /\ result.value = Str(Trim(BlockBody(given.s, k)))
        /\ (FencesOf(given.s) = {} /\ ~HasTag(given.s)) => result.value = Undefined

\* C16: for every keyword of the recognized set, in any casing, a generic
\* fenced block whose trimmed first token is that keyword is returned by the
\* extractor, trimmed, as the diagram.
C16_EveryKeyword ==
    (/\ result.done
     /\ Cardinality(FencesOf(given.s)) = 2
     /\ IsKeywordBlock(given.s, 1)) =>
        result.value = Str(Trim(BlockBody(given.s, 1)))

(***************************************************************************)
(* Properties of collectToolCalls                                          *)
(***************************************************************************)
\* the records expected of an output item
RecordsOf(item) == (CHOOSE d \in DetectorItems : d.item = item).records

\* the records expected of an output collection: those of its items, in the
\* order of the items
RECURSIVE RecordsOfAll(_)
RecordsOfAll(output) ==
    IF output = <<>> THEN <<>>
    ELSE RecordsOf(Head(output)) \o RecordsOfAll(Tail(output))

\* C19: the detector returns one record for each item that has a non-empty
\* id and a non-empty name and none for an item whose id or name is empty or
\* no string; the records stand in the order in which the items are met,
\* top-level calls and nested calls interleaved, and two items with the same
\* id give two records.
C19_DetectedRecords ==
    (/\ result.done
     /\ given.t = "obj"
     /\ IsArray(Get(given, "output"))
     /\ \A n \in 1..Len(Get(given, "output").a) : Get(given, "output").a[n] # Null) =>
        /\ ~result.threw
        /\ result.value = Arr(RecordsOfAll(Get(given, "output").a))

\* a nested call between two top-level calls, and the id call_1 three times
C19_Witness ==
    /\ result.done
    /\ ~result.threw
    /\ Len(result.value.a) = 4
    /\ result.value.a[1].id = <<"call_1">>
    /\ result.value.a[2].id = <<"tc_1">>
    /\ result.value.a[3].id = <<"call_1">>
    /\ result.value.a[4].id = <<"call_1">>

(***************************************************************************)
(* The requests of one chat() invocation and the order of its steps        *)
(***************************************************************************)
\* C21: every request of a chat invocation, the first one and each
\* continuation, carries the model identifier, the temperature 0.2 and the
\* structured-output declaration.
C21_EveryRequestComplete ==
    \A q \in 1..Len(requests) :
        /\ requests[q].body.model = client.model
        /\ requests[q].body.temperature = Num("0.2")
        /\ requests[q].body.text = TEXT_FORMAT

\* C22: when the caller supplies a handler, every request of the invocation
\* carries exactly one tool declaration, the function get_mermaid_docs with
\* the one required string parameter kind, and the tool choice auto; when
\* no handler is supplied, no request carries tools or a tool choice.
C22_ToolsFollowHandler ==
    \A q \in 1..Len(requests) :
        LET body == requests[q].body IN
        IF options.onGetMermaidDocs
            THEN /\ IsArray(body.tools)
                 /\ Len(body.tools.a) = 1
                 /\ body.tools.a[1].type = "function"
                 /\ body.tools.a[1].name = "get_mermaid_docs"
                 /\ body.tools.a[1].parameters.properties = [kind |-> [type |-> "string"]]
                 /\ body.tools.a[1].parameters.required = <<"kind">>
                 /\ body.tool_choice = Str(<<"auto">>)
            ELSE /\ body.tools = Undefined
                 /\ body.tool_choice = Undefined

\* a handler was supplied and two continuation requests have been sent
C22_Witness ==
    /\ options.onGetMermaidDocs
    /\ Len(requests) = 3
    /\ requests[3].body.previous_response_id # Undefined
    /\ Len(requests[3].body.tools.a) = 1

\* the handler calls that have not completed yet
PendingHandlers == {n \in 1..Len(handlerLog) : handlerLog[n].state = "pending"}

\* the handler calls of round r
HandlersOfRound(r) == {n \in 1..Len(handlerLog) : handlerLog[n].round = r}

\* C23: within one chat invocation at most one request is in flight at any
\* time; the continuation request of a round is sent only after the handler
\* has been called for every call of that round and each of these calls has
\* completed, and no request is in flight while a handler call runs; the
\* final parse happens once, after the last request has returned.
C23_OneStepAtATime ==
    /\ Len(requests) - Len(replies) \in {0, 1}
    /\ \A q \in 2..Len(requests) :
          /\ Cardinality(HandlersOfRound(q - 2)) =
                Len(collectToolCalls(replies[q - 1].json))
          /\ \A n \in HandlersOfRound(q - 2) : handlerLog[n].state = "resolved"
    /\ Cardinality(PendingHandlers) <= 1
    /\ PendingHandlers # {} => Len(requests) = Len(replies)
    /\ parsed # <<>> =>
          /\ Len(parsed) = 1
          /\ Len(requests) = Len(replies)
          /\ PendingHandlers = {}
          /\ parsed[1] = replies[Len(replies)].json

\* two rounds of two handler calls each, then the final parse of the reply
\* to the third request
C23_Witness ==
    /\ pc = "done"
    /\ Len(requests) = 3
    /\ Len(replies) = 3
    /\ Cardinality(HandlersOfRound(0)) = 2
    /\ Cardinality(HandlersOfRound(1)) = 2
    /\ Len(parsed) = 1

(***************************************************************************)
(* Two invocations on one client                                           *)
(***************************************************************************)
\* the continuation anchor a response carries
AnchorOf(json) ==
    IF IsString(Get(json, "id")) /\ Get(json, "id").s # <<>>
        THEN Get(json, "id")
        ELSE Get(Get(json, "response"), "id")

\* the handler calls invocation v made for the calls of its last reply
LastRound(v) ==
    {n \in 1..Len(v.handlerLog) : v.handlerLog[n].round = Len(v.replies) - 1}

\* what invocation v settles with when it runs alone and is given the
\* replies and the handler results that v was given
OwnOutcome(v) ==
    LET last == v.replies[Len(v.replies)] IN
    IF ~last.ok
        THEN Rejected([name |-> "Error",
                       message |-> <<"OpenAI ", last.status, ": ">> \o last.text],
                      "postCreate")
    ELSE IF \/ ~v.options.onGetMermaidDocs
            \/ collectToolCalls(last.json) = <<>>
            \/ Len(v.replies) = 4
        THEN Fulfilled(parseResponseV2(last.json))
    ELSE IF \E n \in LastRound(v) : v.handlerLog[n].state = "rejected"
        THEN Rejected(HandlerFailure, "onGetMermaidDocs")
    ELSE IF Cardinality(LastRound(v)) < Len(collectToolCalls(last.json))
        THEN Rejected(NullArgsError, "args.kind")
    ELSE Rejected(MissingAnchorError, "getResponseId")

\* invocation v used nothing but what it was given itself
Own(v) ==
    /\ Len(v.requests) <= 4
    /\ Len(v.replies) <= Len(v.requests)
    /\ v.requests # <<>> => v.requests[1].body.input = Arr(v.messages)
    /\ \A q \in 2..Len(v.requests) :
          LET cs == collectToolCalls(v.replies[q - 1].json)
              input == v.requests[q].body.input.a
          IN /\ v.requests[q].body.previous_response_id = AnchorOf(v.replies[q - 1].json)
             /\ Len(input) = Len(cs)
             /\ \A k \in 1..Len(cs) :
                   /\ input[k].call_id = cs[k].id
                   /\ \E n \in 1..Len(v.handlerLog) :
                         /\ v.handlerLog[n].round = q - 2
                         /\ v.handlerLog[n].index = k
                         /\ JSONParse(input[k].output).v =
                               Obj(Field("syntaxDoc", Str(v.handlerLog[n].syntaxDoc))
                                   @@ Field("sourceUrl", Str(v.handlerLog[n].sourceUrl)))
    /\ v.pc = "done" <=> v.outcome.state # "pending"
    /\ v.pc = "done" => v.outcome = OwnOutcome(v)

\* C24: two chat invocations on the same client, interleaved in any order at
\* their awaits, do not affect each other: each continuation request of an
\* invocation has the anchor of that invocation's previous reply and the
\* outputs of that invocation's handler calls, each invocation sends at most
\* 4 requests, and each settles with what it settles with when run alone on
\* the replies and handler results it was given.
C24_Isolated == Own(Locals) /\ Own(other)

\* both invocations sent a continuation request, with different anchors,
\* and both settled, one fulfilled and one rejected
C24_Witness ==
    /\ pc = "done"
    /\ other.pc = "done"
    /\ Len(requests) >= 2
    /\ Len(other.requests) = 3
    /\ requests[2].body.previous_response_id = Str(<<"resp_a">>)
    /\ other.requests[2].body.previous_response_id = Str(<<"resp_m">>)
    /\ outcome.state = "fulfilled"
    /\ other.outcome.state = "rejected"

(***************************************************************************)
(* What chat() returns and how a round ends                                *)
(***************************************************************************)
\* C25: every AssistantResult chat returns has as raw the response received
\* last, unchanged, whichever return of the parser produced it: a
\* structured item, the aggregated text, the stitched chunks or nothing.
C25_RawIsLastResponse ==
    outcome.state = "fulfilled" =>
        /\ replies # <<>>
        /\ outcome.value.raw = replies[Len(replies)].json
        /\ outcome.value.raw = current
        /\ DOMAIN outcome.value = {"text", "mermaid", "raw"}

\* the reply to the second continuation request had only a plain text
\* chunk, so the result comes from the stitched chunks
C25_Witness ==
    /\ outcome.state = "fulfilled"
    /\ Len(replies) = 3
    /\ replies[3].json = DroppedCalls
    /\ replies[1].json # DroppedCalls
    /\ replies[2].json # DroppedCalls
    /\ outcome.value.text = <<"plain">>
    /\ outcome.value.raw = DroppedCalls

\* C26: when the handler's promise rejects for a tool call of a round, chat
\* rejects with that failure; no continuation request is sent for the round,
\* so the items already built in it are never sent, and no later call of
\* the round is dispatched.
C26_HandlerFailure ==
    \A n \in 1..Len(handlerLog) :
        handlerLog[n].state = "rejected" =>
            /\ n = Len(handlerLog)
            /\ pc = "done"
            /\ outcome = Rejected(HandlerFailure, "onGetMermaidDocs")
            /\ Len(requests) = handlerLog[n].round + 1
            /\ Len(replies) = Len(requests)
            /\ Len(continuationInput) = handlerLog[n].index - 1
            /\ parsed = <<>>

\* the handler failed for the second call of the second round, after the
\* item for the first call had been built
C26_Witness ==
    /\ handlerLog # <<>>
    /\ handlerLog[Len(handlerLog)].state = "rejected"
    /\ handlerLog[Len(handlerLog)].round = 1
    /\ handlerLog[Len(handlerLog)].index = 2
    /\ Len(continuationInput) = 1
    /\ Len(requests) = 2
    /\ outcome.state = "rejected"

\* C27: when every POST and every handler call completes, with success or
\* not, a chat invocation that was called terminates: its promise is
\* fulfilled or rejected, and it has made at most 4 POSTs by then, whatever
\* the service answered.
C27_Terminates ==
    (pc # "idle") ~> (pc = "done" /\ outcome.state # "pending" /\ Len(requests) <= 4)

\* chat ended after four POSTs that were all answered with pending calls
C27_Witness ==
    /\ pc = "done"
    /\ Len(requests) = 4
    /\ Len(replies) = 4
    /\ collectToolCalls(replies[4].json) # <<>>
    /\ outcome.state # "pending"

\* C28: the tool loop dispatches on presence, not on name.  In a round the
\* handler is called for the detected records one at a time in detection
\* order, each call as soon as the one before it has returned, whatever the
\* record's name is; when the round's continuation request is sent, every
\* record, also one that names a tool other than get_mermaid_docs, has had
\* exactly one handler call and has its function_call_output item.
C28_DispatchOnPresence ==
    /\ \A n \in 1..(Len(handlerLog) - 1) : handlerLog[n].state = "resolved"
    /\ \A j \in 1..Len(replies) :
          (options.onGetMermaidDocs /\ j <= 3 /\ replies[j].ok) =>
              LET cs == collectToolCalls(replies[j].json)
                  At(x) == {n \in HandlersOfRound(j - 1) : handlerLog[n].index = x}
              IN /\ \A n \in HandlersOfRound(j - 1) :
                        handlerLog[n].index =
                            Cardinality({m \in HandlersOfRound(j - 1) : m <= n})
                 /\ Cardinality(HandlersOfRound(j - 1)) <= Len(cs)
                 /\ \A k \in 1..Len(cs) :
                        ( /\ \/ k = 1
                             \/ \E n \in At(k - 1) : handlerLog[n].state = "resolved"
                          /\ ~IsNullish(safeParseJSON(cs[k].arguments)) )
                        => Cardinality(At(k)) = 1
                 /\ Len(requests) > j =>
                        \A k \in 1..Len(cs) :
                            /\ Cardinality(At(k)) = 1
                            /\ requests[j + 1].body.input.a[k].type = "function_call_output"
                            /\ requests[j + 1].body.input.a[k].call_id = cs[k].id

\* the second record of the first reply names another tool; the handler was
\* called for it after the first call and its item was sent
C28_Witness ==
    /\ Len(requests) >= 2
    /\ Len(collectToolCalls(replies[1].json)) = 2
    /\ collectToolCalls(replies[1].json)[2].name = <<"other_tool">>
    /\ handlerLog[2].round = 0
    /\ handlerLog[2].index = 2
    /\ handlerLog[2].state = "resolved"
    /\ requests[2].body.input.a[2].call_id = <<"fc_2">>

(***************************************************************************)
(* The chat pane                                                           *)
(***************************************************************************)
\* the messages alternate user, assistant; busy holds exactly while a send
\* waits for onSend, which is while a user message has no answer yet
PaneOrderly ==
    /\ \A k \in 1..Len(paneMessages) :
          paneMessages[k].role = IF k % 2 = 1 THEN "user" ELSE "assistant"
    /\ Len(awaited) <= 1
    /\ busy <=> awaited # <<>>
    /\ busy <=> Len(paneMessages) % 2 = 1
    /\ \A n \in 1..Len(sendLog) :
          sendLog[n] = "assistant" =>
              \E m \in 1..(n - 1) :
                  /\ sendLog[m] = "user"
                  /\ \A x \in (m + 1)..(n - 1) : sendLog[x] = "ignored"

\* a step in which send was called
SendCalled == \E now \in PaneClock : Send(now)

\* what a step of send may do: nothing when the input is blank or the pane
\* is busy, else append one user message with the trimmed input, empty the
\* input and, with onSend, stay busy
SendStep ==
    SendCalled =>
        IF Trim(paneInput) = <<>> \/ busy
            THEN UNCHANGED <<paneMessages, paneInput, busy, awaited>>
            ELSE /\ Len(paneMessages') >= Len(paneMessages) + 1
                 /\ SubSeq(paneMessages', 1, Len(paneMessages)) = paneMessages
                 /\ paneMessages'[Len(paneMessages) + 1].role = "user"
                 /\ paneMessages'[Len(paneMessages) + 1].text = Trim(paneInput)
                 /\ paneInput' = <<>>
                 /\ busy' = onSend
                 /\ ~onSend =>
                       /\ Len(paneMessages') = Len(paneMessages) + 2
                       /\ paneMessages'[Len(paneMessages) + 2].role = "assistant"
                 /\ onSend => Len(paneMessages') = Len(paneMessages) + 1

\* what the end of a send does: it appends one assistant message, which
\* carries the error after a rejection, and busy is false again
SettleStep ==
    (awaited' # awaited /\ awaited' = <<>>) =>
        /\ busy
        /\ ~busy'
        /\ Len(paneMessages') = Len(paneMessages) + 1
        /\ SubSeq(paneMessages', 1, Len(paneMessages)) = paneMessages
        /\ paneMessages'[Len(paneMessages')].role = "assistant"
        /\ (\E err \in SendErrors : SendReject(err)) =>
              Head(paneMessages'[Len(paneMessages')].text) = WarningSign

\* C29: in the chat pane a send with blank input or while busy changes
\* nothing; every accepted send appends exactly one user message and then
\* exactly one assistant message, the reply or a warning that carries the
\* error when onSend rejects, and busy is false again once the send has
\* finished.
C29_SendCycle == []PaneOrderly /\ [][SendStep /\ SettleStep]_vars

\* a send was accepted, a second one made while busy was ignored, and the
\* rejection of onSend added the warning and ended busy
C29_Witness ==
    /\ sendLog = <<"user", "ignored", "assistant">>
    /\ Len(paneMessages) = 2
    /\ paneMessages[2].role = "assistant"
    /\ paneMessages[2].text = <<WarningSign, " ", "timeout">>
    /\ ~busy

(***************************************************************************)
(* The global parseError hook                                              *)
(***************************************************************************)
\* C30: validation restores the global mermaid.parseError: once every
\* validation that was started has completed, valid text or not and
\* however the validations overlapped, the hook has the value it had
\* before the first validation started.
C30_HookRestored ==
    ( /\ validations # <<>>
      /\ \A k \in 1..Len(validations) : validations[k].pc = "done" )
    => parseError = validations[1].hookAtCall

====
